---- MODULE Spec2Model ----
(***************************************************************************)
(* Model of the portfolio core of financial_dashboard                      *)
(* (src/app/core/portfolio.py): the FIFO lot engine, the price and FX      *)
(* resolvers, the position calculator and the portfolio aggregator, over   *)
(* the DuckDB stores of src/app/core/db.py.                                *)
(*                                                                         *)
(* All money and quantity values are Python decimal.Decimal values.  They  *)
(* are modelled as normalised pairs [c, e] (value c * 10^e, c not a        *)
(* multiple of 10 unless the value is 0), and every arithmetic operation   *)
(* rounds its exact result to DecPrec significant digits, half-even, as    *)
(* the decimal context of the interpreter does.                            *)
(***************************************************************************)
EXTENDS Integers, Sequences, FiniteSets, TLC

\* Significant digits of the decimal context (decimal.getcontext().prec).
\* CPython's default is 28 for DECIMAL(18,8) inputs; the model keeps the
\* same regime with a narrower context and narrower inputs.
DecPrec == 7

\* ------------------------------------------------------------------------
\* Exact naturals as digit sequences, least significant digit first, without
\* leading (most significant) zeros; <<>> is 0.
\* ------------------------------------------------------------------------
Abs(n) == IF n < 0 THEN -n ELSE n

Sgn(n) == IF n < 0 THEN -1 ELSE IF n = 0 THEN 0 ELSE 1

RECURSIVE NatDigits(_)
NatDigits(n) == IF n = 0 THEN <<>> ELSE <<n % 10>> \o NatDigits(n \div 10)

RECURSIVE DigitsNat(_)
DigitsNat(d) == IF d = <<>> THEN 0 ELSE Head(d) + 10 * DigitsNat(Tail(d))

RECURSIVE StripDigits(_)
StripDigits(d) ==
    IF d = <<>> THEN d
    ELSE IF d[Len(d)] = 0 THEN StripDigits(SubSeq(d, 1, Len(d) - 1)) ELSE d

ShiftDigits(d, k) == IF d = <<>> THEN d ELSE [i \in 1..k |-> 0] \o d

RECURSIVE AddDigits(_, _, _)
AddDigits(a, b, carry) ==
    IF a = <<>> /\ b = <<>>
    THEN IF carry = 0 THEN <<>> ELSE <<carry>>
    ELSE LET x == IF a = <<>> THEN 0 ELSE Head(a)
             y == IF b = <<>> THEN 0 ELSE Head(b)
             s == x + y + carry
         IN <<s % 10>> \o AddDigits(IF a = <<>> THEN a ELSE Tail(a),
                                    IF b = <<>> THEN b ELSE Tail(b),
                                    s \div 10)

\* a - b - borrow for a >= b, digits not yet stripped.
RECURSIVE SubDigitsRaw(_, _, _)
SubDigitsRaw(a, b, borrow) ==
    IF a = <<>> THEN <<>>
    ELSE LET y == IF b = <<>> THEN 0 ELSE Head(b)
             s == Head(a) - y - borrow
         IN <<s % 10>> \o SubDigitsRaw(Tail(a),
                                       IF b = <<>> THEN b ELSE Tail(b),
                                       IF s < 0 THEN 1 ELSE 0)

SubDigits(a, b) == StripDigits(SubDigitsRaw(a, b, 0))

\* -1, 0, 1 as a < b, a = b, a > b.
RECURSIVE CmpDigits(_, _)
CmpDigits(a, b) ==
    IF Len(a) # Len(b) THEN (IF Len(a) < Len(b) THEN -1 ELSE 1)
    ELSE IF a = <<>> THEN 0
    ELSE IF a[Len(a)] # b[Len(b)] THEN (IF a[Len(a)] < b[Len(b)] THEN -1 ELSE 1)
    ELSE CmpDigits(SubSeq(a, 1, Len(a) - 1), SubSeq(b, 1, Len(b) - 1))

\* The digits of (the natural with digits a) * n.
RECURSIVE MulDigits(_, _)
MulDigits(a, n) ==
    IF a = <<>> \/ n = 0 THEN <<>>
    ELSE AddDigits(NatDigits(Head(a) * n), ShiftDigits(MulDigits(Tail(a), n), 1), 0)

\* Long division of the natural with most-significant-first digits msd by n > 0,
\* with running remainder rem: [q |-> quotient digits, least significant first,
\* r |-> final remainder].
RECURSIVE DivDigits(_, _, _)
DivDigits(msd, n, rem) ==
    IF msd = <<>> THEN [q |-> <<>>, r |-> rem]
    ELSE LET cur  == rem * 10 + Head(msd)
             rest == DivDigits(Tail(msd), n, cur % n)
         IN [q |-> rest.q \o <<cur \div n>>, r |-> rest.r]

Reverse(s) == [i \in 1..Len(s) |-> s[Len(s) + 1 - i]]

RECURSIVE Pow10(_)
Pow10(n) == IF n = 0 THEN 1 ELSE 10 * Pow10(n - 1)

\* ------------------------------------------------------------------------
\* decimal.Decimal
\* ------------------------------------------------------------------------
RECURSIVE Norm(_, _)
Norm(c, e) ==
    IF c = 0 THEN [c |-> 0, e |-> 0]
    ELSE IF c % 10 = 0 THEN Norm(c \div 10, e + 1) ELSE [c |-> c, e |-> e]

Dec(c, e) == Norm(c, e)

DecInt(n) == Norm(n, 0)

DecZero == DecInt(0)

DecOne == DecInt(1)

\* Decimal._fix: the exact magnitude with digits d (least significant first),
\* plus a non-zero tail below it when sticky, rounded half-even to DecPrec digits:
\* [c |-> coefficient, shift |-> digits dropped].
RoundDigits(d, sticky) ==
    LET n == Len(d)
        k == n - DecPrec
    IN IF k <= 0 THEN [c |-> DigitsNat(d), shift |-> 0]
       ELSE LET kept  == DigitsNat(SubSeq(d, k + 1, n))
                guard == d[k]
                below == sticky \/ \E i \in 1..(k - 1) : d[i] # 0
                up    == \/ guard > 5
                         \/ guard = 5 /\ (below \/ kept % 2 = 1)
            IN [c |-> IF up THEN kept + 1 ELSE kept, shift |-> k]

DecNeg(x) == [c |-> -x.c, e |-> x.e]

\* Decimal.__mul__
DecMul(x, y) ==
    LET r == RoundDigits(MulDigits(NatDigits(Abs(x.c)), Abs(y.c)), FALSE)
    IN Norm(Sgn(x.c) * Sgn(y.c) * r.c, x.e + y.e + r.shift)

\* Decimal.__add__ (with decimal._normalize: an operand that lies entirely below
\* the other's rounding position is replaced by a unit just below it).
DecAdd(x, y) ==
    IF x.c = 0 THEN y
    ELSE IF y.c = 0 THEN x
    ELSE LET hi    == IF x.e >= y.e THEN x ELSE y
             lo0   == IF x.e >= y.e THEN y ELSE x
             hilen == Len(NatDigits(Abs(hi.c)))
             lolen == Len(NatDigits(Abs(lo0.c)))
             minus == IF hilen - DecPrec - 2 < -1 THEN hilen - DecPrec - 2 ELSE -1
             exp   == hi.e + minus
             lo    == IF lolen + lo0.e - 1 < exp
                      THEN [c |-> Sgn(lo0.c), e |-> exp] ELSE lo0
             a     == ShiftDigits(NatDigits(Abs(hi.c)), hi.e - lo.e)
             b     == NatDigits(Abs(lo.c))
             same  == Sgn(hi.c) = Sgn(lo.c)
             cmp   == CmpDigits(a, b)
             mag   == IF same THEN AddDigits(a, b, 0)
                      ELSE IF cmp >= 0 THEN SubDigits(a, b) ELSE SubDigits(b, a)
             sign  == IF same \/ cmp >= 0 THEN Sgn(hi.c) ELSE Sgn(lo.c)
             r     == RoundDigits(mag, FALSE)
         IN Norm(sign * r.c, lo.e + r.shift)

\* Decimal.__sub__
DecSub(x, y) == DecAdd(x, DecNeg(y))

\* Decimal.__truediv__ for y # 0: the quotient to DecPrec + 1 or DecPrec + 2
\* digits, the remainder kept as a sticky tail, then rounded.
DecDiv(x, y) ==
    IF x.c = 0 THEN DecZero
    ELSE LET xd    == NatDigits(Abs(x.c))
             shift == Len(NatDigits(Abs(y.c))) - Len(xd) + DecPrec + 1
             num   == Reverse(ShiftDigits(xd, shift))
             dv    == DivDigits(num, Abs(y.c), 0)
             r     == RoundDigits(StripDigits(dv.q), dv.r # 0)
         IN Norm(Sgn(x.c) * Sgn(y.c) * r.c, x.e - y.e - shift + r.shift)

\* Decimal comparison: -1, 0, 1.
DecCmp(x, y) == Sgn(DecSub(x, y).c)

DecGt(x, y) == DecCmp(x, y) > 0

DecLe(x, y) == DecCmp(x, y) <= 0

\* ------------------------------------------------------------------------
\* Values
\* ------------------------------------------------------------------------
\* Python None / SQL NULL.
None == [none |-> TRUE]

\* TransactionAction.BUY.value, TransactionAction.SELL.value
BUY == "buy"

SELL == "sell"

\* The reporting currency of the position calculator.
ReportingCcy == "PLN"

\* Symbols in ascending (ORDER BY symbol) order.
Symbols == <<"AAPL", "BTC", "ETH">>

SymbolRank(sym) == CHOOSE i \in 1..Len(Symbols) : Symbols[i] = sym

\* ------------------------------------------------------------------------
\* The stores (DuckDB tables, rows in insertion order) and the locals of one
\* get_portfolio_summary / calculate_positions / _calculate_holding_position
\* call.
\* ------------------------------------------------------------------------
VARIABLES
    holdings,           \* table holdings: [id, asset_type, symbol, currency]
    transactions,       \* table transactions: [id, holding_id, ts, action, qty, price, fee]
    prices,             \* table prices: [id, holding_id, ts, price, price_ccy, source]
    fx_rates,           \* table fx_rates: [id, ts, base_ccy, quote_ccy, rate, source]
    accounts,           \* table accounts: [id, currency, balance, active]
    pc,                 \* where the running call is
    holdings_data,      \* calculate_positions: the holdings still to visit
    holding,            \* the holding being computed
    txns_data,          \* _calculate_holding_position: the entries still to replay
    txn,                \* the entry being replayed, NULLs already zeroed
    fifo_queue,         \* the lot queue: [qty, cost], oldest first
    total_realized_pl,
    remaining_to_sell,
    positions,          \* calculate_positions: the result list built so far
    summary,            \* the dict returned by get_portfolio_summary
    queue_before,       \* history: fifo_queue before the entry in txn was replayed
    fx_call,            \* a direct _get_fx_rate call: [from_ccy, to_ccy, rate]
    price_call,         \* a direct _get_latest_price call: [holding_id, price]
    refresh,            \* a running refresh_prices: [phase, holdings, todo]
    txn_call,           \* the last add_transaction call: [symbol, holding_id (0: none), message]
    overview            \* get_overview_data past its first call: [summary, positions]

stores == <<holdings, transactions, prices, fx_rates, accounts>>

locals == <<pc, holdings_data, holding, txns_data, txn, fifo_queue,
            total_realized_pl, remaining_to_sell, positions, summary, queue_before>>

engine == <<holding, txns_data, txn, fifo_queue, total_realized_pl,
            remaining_to_sell, queue_before>>

\* The handlers of the UI that write the ledger or read the core.
ui == <<txn_call, overview>>

\* The calls that run beside get_portfolio_summary.
calls == <<price_call, refresh, ui>>

vars == <<stores, locals, fx_call, calls>>

\* ------------------------------------------------------------------------
\* Pure helpers of the core
\* ------------------------------------------------------------------------
\* Python sum(): 0 + s[1] + s[2] + ...
RECURSIVE SumDec(_)
SumDec(s) == IF s = <<>> THEN DecZero
             ELSE DecAdd(SumDec(SubSeq(s, 1, Len(s) - 1)), s[Len(s)])

Rows(table, keep(_)) == {i \in 1..Len(table) : keep(table[i])}

\* Rows idx of table in ascending (ts, id) order.
RECURSIVE OrderByTsId(_, _)
OrderByTsId(table, idx) ==
    IF idx = {} THEN <<>>
    ELSE LET first == CHOOSE i \in idx : \A j \in idx :
                          \/ table[i].ts < table[j].ts
                          \/ table[i].ts = table[j].ts /\ table[i].id <= table[j].id
         IN <<table[first]>> \o OrderByTsId(table, idx \ {first})

\* Faulty variant: the ledger query without its WHERE holding_id = ?.
SelectTxns_All(holding_id) == OrderByTsId(transactions, 1..Len(transactions))

\* Faulty variant: the ledger query without its ORDER BY, rows as stored.
SelectTxns_Stored(holding_id) ==
    SelectSeq(transactions, LAMBDA r : r.holding_id = holding_id)

\* SELECT ... FROM transactions WHERE holding_id = ? ORDER BY ts ASC, id ASC
SelectTxns(holding_id) ==
    OrderByTsId(transactions, Rows(transactions, LAMBDA r : r.holding_id = holding_id))

\* if x is None: x = Decimal("0")
Coalesce(x) == IF x = None THEN DecZero ELSE x

\* The row as the loop body sees it after the three None checks.
Zeroed(row) == [row EXCEPT !.qty = Coalesce(row.qty), !.price = Coalesce(row.price),
                           !.fee = Coalesce(row.fee)]

\* Faulty variant: the fee is left out of the lot's unit cost.
BuyLot_NoFee(qty, price, fee) == [qty |-> qty, cost |-> price]

\* Faulty variant: the whole fee is added to the unit cost.
BuyLot_WholeFee(qty, price, fee) == [qty |-> qty, cost |-> DecAdd(price, fee)]

\* The lot a buy appends: (qty, price + fee / qty).
BuyLot(qty, price, fee) == [qty |-> qty, cost |-> DecAdd(price, DecDiv(fee, qty))]

\* Faulty variant: the shortfall of an earlier oversell is taken off the buy.
BuyQueue_Netted(queue, qty, price, fee) ==
    LET owed == IF remaining_to_sell = None THEN DecZero ELSE remaining_to_sell
        left == DecSub(qty, owed)
    IN IF DecGt(left, DecZero)
       THEN Append(queue, [qty |-> left, cost |-> DecAdd(price, DecDiv(fee, qty))])
       ELSE queue

\* Faulty variant: the buy branch guarded by qty != 0.
BuyQueue_NonZero(queue, qty, price, fee) ==
    IF qty # DecZero THEN Append(queue, BuyLot(qty, price, fee)) ELSE queue

\* The buy branch.
BuyQueue(queue, qty, price, fee) ==
    IF DecGt(qty, DecZero) THEN Append(queue, BuyLot(qty, price, fee)) ELSE queue

\* Faulty variant: every increment is charged the whole fee.
RealizedPl_FullFee(consumed, oldest_cost, qty, price, fee) ==
    DecSub(DecSub(DecMul(consumed, price), DecMul(consumed, oldest_cost)), fee)

\* realized_pl = proceeds - cost - fee * (consumed / qty)
RealizedPl(consumed, oldest_cost, qty, price, fee) ==
    DecSub(DecSub(DecMul(consumed, price), DecMul(consumed, oldest_cost)),
           DecMul(fee, DecDiv(consumed, qty)))

\* Faulty variant: the sell takes from the newest lot.
ConsumeNewest(queue, remaining, realized, qty, price, fee) ==
    LET newest == queue[Len(queue)]
        front  == SubSeq(queue, 1, Len(queue) - 1)
    IN IF DecLe(newest.qty, remaining)
       THEN [fifo_queue |-> front,
             total_realized_pl |->
                 DecAdd(realized, DecSub(DecSub(DecMul(newest.qty, price),
                                                DecMul(newest.qty, newest.cost)),
                                         DecMul(fee, DecDiv(newest.qty, qty)))),
             remaining_to_sell |-> DecSub(remaining, newest.qty)]
       ELSE [fifo_queue |->
                 Append(front, [qty |-> DecSub(newest.qty, remaining),
                                cost |-> newest.cost]),
             total_realized_pl |->
                 DecAdd(realized, DecSub(DecSub(DecMul(remaining, price),
                                                DecMul(remaining, newest.cost)),
                                         DecMul(fee, DecDiv(remaining, qty)))),
             remaining_to_sell |-> DecZero]

\* Faulty variant: a lot consumed whole is not popped from the queue.
ConsumeOldest_KeepLot(queue, remaining, realized, qty, price, fee) ==
    LET oldest == Head(queue)
    IN IF DecLe(oldest.qty, remaining)
       THEN [fifo_queue |-> queue,
             total_realized_pl |->
                 DecAdd(realized, RealizedPl(oldest.qty, oldest.cost, qty, price, fee)),
             remaining_to_sell |-> DecSub(remaining, oldest.qty)]
       ELSE [fifo_queue |->
                 <<[qty |-> DecSub(oldest.qty, remaining), cost |-> oldest.cost]>>
                     \o Tail(queue),
             total_realized_pl |->
                 DecAdd(realized, RealizedPl(remaining, oldest.cost, qty, price, fee)),
             remaining_to_sell |-> DecZero]

\* Faulty variant: a lot consumed in part is carried at the sell's price.
ConsumeOldest_Reprice(queue, remaining, realized, qty, price, fee) ==
    LET oldest == Head(queue)
    IN IF DecLe(oldest.qty, remaining)
       THEN [fifo_queue |-> Tail(queue),
             total_realized_pl |->
                 DecAdd(realized, RealizedPl(oldest.qty, oldest.cost, qty, price, fee)),
             remaining_to_sell |-> DecSub(remaining, oldest.qty)]
       ELSE [fifo_queue |->
                 <<[qty |-> DecSub(oldest.qty, remaining), cost |-> price]>>
                     \o Tail(queue),
             total_realized_pl |->
                 DecAdd(realized, RealizedPl(remaining, oldest.cost, qty, price, fee)),
             remaining_to_sell |-> DecZero]

\* Faulty variant: a lot consumed in part is popped whole.
ConsumeOldest_DropLot(queue, remaining, realized, qty, price, fee) ==
    LET oldest == Head(queue)
    IN IF DecLe(oldest.qty, remaining)
       THEN [fifo_queue |-> Tail(queue),
             total_realized_pl |->
                 DecAdd(realized, RealizedPl(oldest.qty, oldest.cost, qty, price, fee)),
             remaining_to_sell |-> DecSub(remaining, oldest.qty)]
       ELSE [fifo_queue |-> Tail(queue),
             total_realized_pl |->
                 DecAdd(realized, RealizedPl(remaining, oldest.cost, qty, price, fee)),
             remaining_to_sell |-> DecZero]

\* One iteration of the while loop of a sell, entered with remaining > 0 and a
\* non-empty queue.
ConsumeOldest(queue, remaining, realized, qty, price, fee) ==
    LET oldest == Head(queue)
    IN IF DecLe(oldest.qty, remaining)
       THEN [fifo_queue |-> Tail(queue),
             total_realized_pl |->
                 DecAdd(realized, RealizedPl(oldest.qty, oldest.cost, qty, price, fee)),
             remaining_to_sell |-> DecSub(remaining, oldest.qty)]
       ELSE [fifo_queue |->
                 <<[qty |-> DecSub(oldest.qty, remaining), cost |-> oldest.cost]>>
                     \o Tail(queue),
             total_realized_pl |->
                 DecAdd(realized, RealizedPl(remaining, oldest.cost, qty, price, fee)),
             remaining_to_sell |-> DecZero]

\* Faulty variant: while fifo_queue
SellLoopRuns_QueueOnly(queue, remaining) == queue # <<>>

\* while remaining_to_sell > 0 and fifo_queue
SellLoopRuns(queue, remaining) == DecGt(remaining, DecZero) /\ queue # <<>>

\* Faulty variant: only the oldest lot is counted.
TotalQty_First(queue) == IF queue = <<>> THEN DecZero ELSE Head(queue).qty

TotalQty(queue) == SumDec([i \in 1..Len(queue) |-> queue[i].qty])

TotalCost(queue) == SumDec([i \in 1..Len(queue) |-> DecMul(queue[i].qty, queue[i].cost)])

\* _get_latest_price: the price of a row of the holding with the greatest ts
\* (ORDER BY ts DESC LIMIT 1 names no tie-break), or None.
LatestPriceOutcomes(holding_id) ==
    LET idx == Rows(prices, LAMBDA r : r.holding_id = holding_id)
    IN IF idx = {} THEN {None}
       ELSE {prices[i].price : i \in {j \in idx : \A k \in idx : prices[k].ts <= prices[j].ts}}

\* SELECT rate FROM fx_rates WHERE base_ccy = ? AND quote_ccy = ? ORDER BY ts DESC LIMIT 1
LatestRates(base, quote) ==
    LET idx == Rows(fx_rates, LAMBDA r : r.base_ccy = base /\ r.quote_ccy = quote)
    IN {fx_rates[i].rate : i \in {j \in idx : \A k \in idx : fx_rates[k].ts <= fx_rates[j].ts}}

\* Faulty variant: the inverse observation is tried before the direct one.
FxRateOutcomes_InverseFirst(from_ccy, to_ccy) ==
    IF from_ccy = to_ccy THEN {DecOne}
    ELSE IF LatestRates(to_ccy, from_ccy) # {}
         THEN {DecDiv(DecOne, r) : r \in LatestRates(to_ccy, from_ccy)}
    ELSE IF LatestRates(from_ccy, to_ccy) # {} THEN LatestRates(from_ccy, to_ccy)
    ELSE {DecOne}

\* Faulty variant: the inverse observation is returned as it is stored.
FxRateOutcomes_NoInvert(from_ccy, to_ccy) ==
    IF from_ccy = to_ccy THEN {DecOne}
    ELSE IF LatestRates(from_ccy, to_ccy) # {} THEN LatestRates(from_ccy, to_ccy)
    ELSE IF LatestRates(to_ccy, from_ccy) # {} THEN LatestRates(to_ccy, from_ccy)
    ELSE {DecOne}

\* _get_fx_rate
FxRateOutcomes(from_ccy, to_ccy) ==
    IF from_ccy = to_ccy THEN {DecOne}
    ELSE IF LatestRates(from_ccy, to_ccy) # {} THEN LatestRates(from_ccy, to_ccy)
    ELSE IF LatestRates(to_ccy, from_ccy) # {}
         THEN {DecDiv(DecOne, r) : r \in LatestRates(to_ccy, from_ccy)}
    ELSE {DecOne}

\* Faulty variant: the cost basis is not converted with the rate.
MakePosition_CostAtPar(h, queue, price, fx_rate) ==
    LET total_qty    == TotalQty(queue)
        total_cost   == TotalCost(queue)
        avg_cost     == DecDiv(total_cost, total_qty)
        latest_price == IF price = None THEN avg_cost ELSE price
        value_native == DecMul(total_qty, latest_price)
        value_pln    == DecMul(value_native, fx_rate)
    IN [holding |-> h, qty |-> total_qty, avg_cost |-> avg_cost,
        current_price |-> latest_price, value_native |-> value_native,
        value_pln |-> value_pln, unrealized_pl |-> DecSub(value_pln, total_cost)]

\* The Position built from a non-empty queue, the resolved price (or None) and rate.
MakePosition(h, queue, price, fx_rate) ==
    LET total_qty    == TotalQty(queue)
        total_cost   == TotalCost(queue)
        avg_cost     == DecDiv(total_cost, total_qty)
        latest_price == IF price = None THEN avg_cost ELSE price
        value_native == DecMul(total_qty, latest_price)
        value_pln    == DecMul(value_native, fx_rate)
        cost_pln     == DecMul(total_cost, fx_rate)
    IN [holding |-> h, qty |-> total_qty, avg_cost |-> avg_cost,
        current_price |-> latest_price, value_native |-> value_native,
        value_pln |-> value_pln, unrealized_pl |-> DecSub(value_pln, cost_pln)]

\* SQL + on DECIMAL(18, 8) values: exact, no rounding to a context.
SqlAdd(x, y) ==
    LET m == IF x.e < y.e THEN x.e ELSE y.e
    IN Norm(x.c * Pow10(x.e - m) + y.c * Pow10(y.e - m), m)

\* Faulty variant: the balances of all accounts, active or not.
TotalCash_All ==
    LET idx == {i \in 1..Len(accounts) : accounts[i].balance # None}
        RECURSIVE Sum(_)
        Sum(s) == IF s = {} THEN DecZero
                  ELSE LET i == CHOOSE j \in s : TRUE
                       IN SqlAdd(Sum(s \ {i}), accounts[i].balance)
    IN Sum(idx)

\* SELECT COALESCE(SUM(balance), 0) FROM accounts WHERE active = TRUE, then
\* Decimal(str(...)): SUM skips NULL balances and adds exactly.
TotalCash ==
    LET idx == {i \in 1..Len(accounts) : accounts[i].active = TRUE
                                         /\ accounts[i].balance # None}
        RECURSIVE Sum(_)
        Sum(s) == IF s = {} THEN DecZero
                  ELSE LET i == CHOOSE j \in s : TRUE
                       IN SqlAdd(Sum(s \ {i}), accounts[i].balance)
    IN Sum(idx)

\* Faulty variant: net worth leaves the cash out.
MakeSummary_NoCash(ps) ==
    LET total_value == SumDec([i \in 1..Len(ps) |-> ps[i].value_pln])
        total_unrealized_pl == SumDec([i \in 1..Len(ps) |-> ps[i].unrealized_pl])
    IN [net_worth |-> total_value, holdings_value |-> total_value,
        unrealized_pl |-> total_unrealized_pl, cash |-> TotalCash]

\* The dict get_portfolio_summary returns for the positions list ps.
MakeSummary(ps) ==
    LET total_value == SumDec([i \in 1..Len(ps) |-> ps[i].value_pln])
        total_unrealized_pl == SumDec([i \in 1..Len(ps) |-> ps[i].unrealized_pl])
    IN [net_worth |-> DecAdd(total_value, TotalCash), holdings_value |-> total_value,
        unrealized_pl |-> total_unrealized_pl, cash |-> TotalCash]

\* Faulty variant: the holdings in insertion order.
HoldingsById == {holdings}

\* The orders SELECT ... FROM holdings ORDER BY symbol may return.
HoldingsBySymbol ==
    {s \in [1..Len(holdings) -> {holdings[i] : i \in 1..Len(holdings)}] :
        /\ \A i, j \in 1..Len(holdings) : i # j => s[i] # s[j]
        /\ \A i, j \in 1..Len(holdings) :
               i < j => SymbolRank(s[i].symbol) <= SymbolRank(s[j].symbol)}

\* ------------------------------------------------------------------------
\* Store writes
\* ------------------------------------------------------------------------
\* Bounds on the number of rows the model inserts in a table.
MaxTxns == 3

MaxFx == 2

NextId(table) == Len(table) + 1

\* INSERT INTO holdings (asset_type, symbol, name, currency); UNIQUE(asset_type, symbol)
InsertHolding(asset_type, symbol, currency) ==
    /\ pc = "idle"
    /\ \A i \in 1..Len(holdings) :
           ~(holdings[i].asset_type = asset_type /\ holdings[i].symbol = symbol)
    /\ holdings' = Append(holdings, [id |-> NextId(holdings), asset_type |-> asset_type,
                                     symbol |-> symbol, currency |-> currency])
    /\ UNCHANGED <<transactions, prices, fx_rates, accounts, locals, fx_call, calls>>

\* INSERT INTO transactions (holding_id, ts, action, qty, price, fee)
InsertTransaction(holding_id, ts, action, qty, price, fee) ==
    /\ pc = "idle"
    /\ Len(transactions) < MaxTxns
    /\ \E i \in 1..Len(holdings) : holdings[i].id = holding_id
    /\ transactions' = Append(transactions,
           [id |-> NextId(transactions), holding_id |-> holding_id, ts |-> ts,
            action |-> action, qty |-> qty, price |-> price, fee |-> fee])
    /\ UNCHANGED <<holdings, prices, fx_rates, accounts, locals, fx_call, calls>>

\* INSERT INTO prices (holding_id, ts, price, price_ccy, source)
InsertPrice(holding_id, ts, price, price_ccy, source) ==
    /\ pc = "idle"
    /\ \E i \in 1..Len(holdings) : holdings[i].id = holding_id
    /\ prices' = Append(prices, [id |-> NextId(prices), holding_id |-> holding_id,
                                 ts |-> ts, price |-> price, price_ccy |-> price_ccy,
                                 source |-> source])
    /\ UNCHANGED <<holdings, transactions, fx_rates, accounts, locals, fx_call, calls>>

\* INSERT INTO fx_rates (ts, base_ccy, quote_ccy, rate, source);
\* UNIQUE(ts, base_ccy, quote_ccy, source)
InsertFxRate(ts, base_ccy, quote_ccy, rate, source) ==
    /\ pc = "idle"
    /\ fx_call = None
    /\ Len(fx_rates) < MaxFx
    /\ \A i \in 1..Len(fx_rates) :
           ~(/\ fx_rates[i].ts = ts /\ fx_rates[i].base_ccy = base_ccy
             /\ fx_rates[i].quote_ccy = quote_ccy /\ fx_rates[i].source = source)
    /\ fx_rates' = Append(fx_rates, [id |-> NextId(fx_rates), ts |-> ts,
                                     base_ccy |-> base_ccy, quote_ccy |-> quote_ccy,
                                     rate |-> rate, source |-> source])
    /\ UNCHANGED <<holdings, transactions, prices, accounts, locals, fx_call, calls>>

\* INSERT INTO accounts (name, type, currency, balance); active BOOLEAN DEFAULT
\* TRUE, a row's active flag being whatever the store holds.
InsertAccount(currency, balance, active) ==
    /\ pc = "idle"
    /\ accounts' = Append(accounts, [id |-> NextId(accounts), currency |-> currency,
                                     balance |-> balance, active |-> active])
    /\ UNCHANGED <<holdings, transactions, prices, fx_rates, locals, fx_call, calls>>

\* ------------------------------------------------------------------------
\* get_portfolio_summary -> calculate_positions -> _calculate_holding_position
\* ------------------------------------------------------------------------
\* get_portfolio_summary calls calculate_positions, which reads the holdings.
GetPortfolioSummary ==
    /\ pc = "idle"
    /\ fx_call = None
    /\ \E hs \in HoldingsBySymbol : holdings_data' = hs
    /\ positions' = <<>>
    /\ pc' = "holding"
    /\ UNCHANGED <<stores, engine, summary, fx_call, calls>>

\* for holding_data in holdings_data: the holding has no ledger entry, so
\* _calculate_holding_position returns None and nothing is appended.
HoldingNoTxns ==
    /\ pc = "holding"
    /\ holdings_data # <<>>
    /\ SelectTxns(Head(holdings_data).id) = <<>>
    /\ holding' = Head(holdings_data)
    /\ holdings_data' = Tail(holdings_data)
    /\ UNCHANGED <<stores, pc, txns_data, txn, fifo_queue, total_realized_pl,
                   remaining_to_sell, positions, summary, queue_before, fx_call, calls>>

\* Faulty variant: the replay of a holding starts from the queue the previous
\* holding left.
HoldingStart_KeepLots ==
    /\ pc = "holding"
    /\ holdings_data # <<>>
    /\ SelectTxns(Head(holdings_data).id) # <<>>
    /\ holding' = Head(holdings_data)
    /\ holdings_data' = Tail(holdings_data)
    /\ txns_data' = SelectTxns(Head(holdings_data).id)
    /\ txn' = None
    /\ queue_before' = fifo_queue
    /\ pc' = "txn"
    /\ UNCHANGED <<stores, fifo_queue, total_realized_pl, remaining_to_sell,
                   positions, summary, fx_call, calls>>

\* for holding_data in holdings_data: the ledger is read and the replay starts
\* from an empty queue.
HoldingStart ==
    /\ pc = "holding"
    /\ holdings_data # <<>>
    /\ SelectTxns(Head(holdings_data).id) # <<>>
    /\ holding' = Head(holdings_data)
    /\ holdings_data' = Tail(holdings_data)
    /\ txns_data' = SelectTxns(Head(holdings_data).id)
    /\ txn' = None
    /\ fifo_queue' = <<>>
    /\ queue_before' = <<>>
    /\ total_realized_pl' = DecZero
    /\ remaining_to_sell' = None
    /\ pc' = "txn"
    /\ UNCHANGED <<stores, positions, summary, fx_call, calls>>

\* for txn_data in txns_data, action == "buy"
ReplayBuy ==
    /\ pc = "txn"
    /\ txns_data # <<>>
    /\ Head(txns_data).action = BUY
    /\ txn' = Zeroed(Head(txns_data))
    /\ txns_data' = Tail(txns_data)
    /\ queue_before' = fifo_queue
    /\ fifo_queue' = BuyQueue(fifo_queue, txn'.qty, txn'.price, txn'.fee)
    /\ UNCHANGED <<stores, pc, holdings_data, holding, total_realized_pl,
                   remaining_to_sell, positions, summary, fx_call, calls>>

\* for txn_data in txns_data, action == "sell": remaining_to_sell = qty
ReplaySell ==
    /\ pc = "txn"
    /\ txns_data # <<>>
    /\ Head(txns_data).action = SELL
    /\ txn' = Zeroed(Head(txns_data))
    /\ txns_data' = Tail(txns_data)
    /\ queue_before' = fifo_queue
    /\ remaining_to_sell' = txn'.qty
    /\ pc' = "sell"
    /\ UNCHANGED <<stores, holdings_data, holding, fifo_queue, total_realized_pl,
                   positions, summary, fx_call, calls>>

\* Faulty variant: an entry of any other action is replayed as a buy.
ReplayOther_AsBuy ==
    /\ pc = "txn"
    /\ txns_data # <<>>
    /\ Head(txns_data).action \notin {BUY, SELL}
    /\ txn' = Zeroed(Head(txns_data))
    /\ txns_data' = Tail(txns_data)
    /\ queue_before' = fifo_queue
    /\ fifo_queue' = BuyQueue(fifo_queue, txn'.qty, txn'.price, txn'.fee)
    /\ UNCHANGED <<stores, pc, holdings_data, holding, total_realized_pl,
                   remaining_to_sell, positions, summary, fx_call, calls>>

\* for txn_data in txns_data, any other action: neither branch runs
ReplayOther ==
    /\ pc = "txn"
    /\ txns_data # <<>>
    /\ Head(txns_data).action \notin {BUY, SELL}
    /\ txn' = Zeroed(Head(txns_data))
    /\ txns_data' = Tail(txns_data)
    /\ queue_before' = fifo_queue
    /\ UNCHANGED <<stores, pc, holdings_data, holding, fifo_queue, total_realized_pl,
                   remaining_to_sell, positions, summary, fx_call, calls>>

\* One iteration of: while remaining_to_sell > 0 and fifo_queue
SellConsume ==
    /\ pc = "sell"
    /\ SellLoopRuns(fifo_queue, remaining_to_sell)
    /\ LET r == ConsumeOldest(fifo_queue, remaining_to_sell, total_realized_pl,
                              txn.qty, txn.price, txn.fee)
       IN /\ fifo_queue' = r.fifo_queue
          /\ total_realized_pl' = r.total_realized_pl
          /\ remaining_to_sell' = r.remaining_to_sell
    /\ UNCHANGED <<stores, pc, holdings_data, holding, txns_data, txn, positions,
                   summary, queue_before, fx_call, calls>>

\* The while loop ends: nothing left to sell, or the queue is empty.
SellEnd ==
    /\ pc = "sell"
    /\ ~SellLoopRuns(fifo_queue, remaining_to_sell)
    /\ pc' = "txn"
    /\ UNCHANGED <<stores, holdings_data, engine, positions, summary, fx_call, calls>>

\* After the replay: total_qty == 0, _calculate_holding_position returns None.
PositionNone ==
    /\ pc = "txn"
    /\ txns_data = <<>>
    /\ TotalQty(fifo_queue) = DecZero
    /\ pc' = "holding"
    /\ UNCHANGED <<stores, holdings_data, engine, positions, summary, fx_call, calls>>

\* After the replay: the Position is built from the queue, the latest price and
\* the rate to PLN; calculate_positions appends it if its qty > 0.
PositionAppend ==
    /\ pc = "txn"
    /\ txns_data = <<>>
    /\ TotalQty(fifo_queue) # DecZero
    /\ \E price \in LatestPriceOutcomes(holding.id) :
       \E fx_rate \in FxRateOutcomes(holding.currency, ReportingCcy) :
           LET position == MakePosition(holding, fifo_queue, price, fx_rate)
           IN positions' = IF DecGt(position.qty, DecZero)
                           THEN Append(positions, position) ELSE positions
    /\ pc' = "holding"
    /\ UNCHANGED <<stores, holdings_data, engine, summary, fx_call, calls>>

\* calculate_positions returns to get_portfolio_summary, which adds up and returns.
Summarize ==
    /\ pc = "holding"
    /\ holdings_data = <<>>
    /\ overview = None
    /\ summary' = MakeSummary(positions)
    /\ pc' = "done"
    /\ UNCHANGED <<stores, holdings_data, engine, positions, fx_call, calls>>

\* The caller drops the results; the locals of the call are gone.
Return ==
    /\ pc = "done"
    /\ pc' = "idle"
    /\ holdings_data' = <<>>
    /\ holding' = None
    /\ txns_data' = <<>>
    /\ txn' = None
    /\ fifo_queue' = <<>>
    /\ queue_before' = <<>>
    /\ total_realized_pl' = DecZero
    /\ remaining_to_sell' = None
    /\ positions' = <<>>
    /\ summary' = None
    /\ UNCHANGED <<stores, fx_call, calls>>

Engine ==
    \/ GetPortfolioSummary
    \/ HoldingNoTxns
    \/ HoldingStart
    \/ ReplayBuy
    \/ ReplaySell
    \/ ReplayOther
    \/ SellConsume
    \/ SellEnd
    \/ PositionNone
    \/ PositionAppend
    \/ Summarize
    \/ Return

\* The database after init_db: the schema, no rows.
Init ==
    /\ holdings = <<>>
    /\ transactions = <<>>
    /\ prices = <<>>
    /\ fx_rates = <<>>
    /\ accounts = <<>>
    /\ pc = "idle"
    /\ holdings_data = <<>>
    /\ holding = None
    /\ txns_data = <<>>
    /\ txn = None
    /\ fifo_queue = <<>>
    /\ queue_before = <<>>
    /\ total_realized_pl = DecZero
    /\ remaining_to_sell = None
    /\ positions = <<>>
    /\ summary = None
    /\ fx_call = None
    /\ price_call = None
    /\ refresh = None
    /\ txn_call = None
    /\ overview = None

\* ------------------------------------------------------------------------
\* Spec: one holding (BTC, in USD), any ledger of up to MaxTxns entries drawn
\* from the reference scenario of test_portfolio.py and its variations, with
\* or without the reference price and rate.
\* ------------------------------------------------------------------------
RefTrades ==
    {[qty |-> DecInt(1),   price |-> DecInt(30000), fee |-> DecInt(100)],
     [qty |-> DecInt(2),   price |-> DecInt(40000), fee |-> DecInt(200)],
     [qty |-> Dec(15, -1), price |-> DecInt(50000), fee |-> DecInt(150)]}

TxnInputs ==
    {[action |-> a, qty |-> t.qty, price |-> t.price, fee |-> t.fee] :
        a \in {BUY, SELL}, t \in RefTrades}
    \cup {[action |-> BUY, qty |-> DecInt(2), price |-> DecInt(30000), fee |-> DecZero],
          [action |-> "dividend", qty |-> None, price |-> DecInt(100), fee |-> None]}

AddBtcHolding == InsertHolding("crypto", "BTC", "USD")

AddTxn ==
    \E t \in TxnInputs :
        InsertTransaction(1, Len(transactions) + 1, t.action, t.qty, t.price, t.fee)

AddRefPrice ==
    /\ prices = <<>>
    /\ InsertPrice(1, 10, DecInt(60000), "USD", "test")

AddRefRate ==
    /\ fx_rates = <<>>
    /\ InsertFxRate(10, "USD", "PLN", DecInt(4), "test")

Next ==
    \/ AddBtcHolding
    \/ AddTxn
    \/ AddRefPrice
    \/ AddRefRate
    \/ Engine

Spec == Init /\ [][Next]_vars

\* ------------------------------------------------------------------------
\* SpecFx: the FX store filled with observations of either direction, and
\* _get_fx_rate called on it for every pair of currencies.
\* ------------------------------------------------------------------------
Currencies == {"PLN", "USD", "EUR"}

FxInputs ==
    [ts : {1, 2}, pair : {<<"USD", "PLN">>, <<"PLN", "USD">>},
     rate : {DecInt(3), DecInt(4)}, source : {"NBP", "test"}]

AddFxRate ==
    \E f \in FxInputs : InsertFxRate(f.ts, f.pair[1], f.pair[2], f.rate, f.source)

\* _get_fx_rate(conn, from_ccy, to_ccy) runs and returns.
GetFxRate ==
    /\ pc = "idle"
    /\ fx_call = None
    /\ \E from_ccy \in Currencies, to_ccy \in Currencies :
       \E rate \in FxRateOutcomes(from_ccy, to_ccy) :
           fx_call' = [from_ccy |-> from_ccy, to_ccy |-> to_ccy, rate |-> rate]
    /\ UNCHANGED <<stores, locals, calls>>

\* The caller is done with the rate.
FxReturn ==
    /\ fx_call # None
    /\ fx_call' = None
    /\ UNCHANGED <<stores, locals, calls>>

NextFx ==
    \/ AddFxRate
    \/ GetFxRate
    \/ FxReturn

SpecFx == Init /\ [][NextFx]_vars

\* ------------------------------------------------------------------------
\* Exact reference arithmetic for the properties: a quantity of the model's
\* inputs in tenths, as an integer.
\* ------------------------------------------------------------------------
Tenths(d) == d.c * Pow10(d.e + 1)

\* The stored ledger of the holding, in replay order, NULLs zeroed.
Ledger(holding_id) ==
    LET rows == SelectTxns(holding_id) IN [i \in 1..Len(rows) |-> Zeroed(rows[i])]

\* Tenths held after the entries: a buy adds its quantity, a sell takes what it
\* can.
RECURSIVE HeldTenths(_)
HeldTenths(entries) ==
    IF entries = <<>> THEN 0
    ELSE LET before == HeldTenths(SubSeq(entries, 1, Len(entries) - 1))
             last   == entries[Len(entries)]
             q      == Tenths(last.qty)
         IN IF last.action = BUY /\ q > 0 THEN before + q
            ELSE IF last.action = SELL /\ q > 0
                 THEN (IF q >= before THEN 0 ELSE before - q)
            ELSE before

RECURSIVE BoughtTenths(_)
BoughtTenths(entries) ==
    IF entries = <<>> THEN 0
    ELSE BoughtTenths(Tail(entries)) + Tenths(Head(entries).qty)

\* The lots of queue from the k-th on.
From(queue, k) == SubSeq(queue, k, Len(queue))

\* ------------------------------------------------------------------------
\* The reference scenario of test_portfolio.py
\* ------------------------------------------------------------------------
RefHoldings == <<[id |-> 1, asset_type |-> "crypto", symbol |-> "BTC", currency |-> "USD"]>>

RefLedger ==
    <<[id |-> 1, holding_id |-> 1, ts |-> 1, action |-> BUY,
       qty |-> DecInt(1), price |-> DecInt(30000), fee |-> DecInt(100)],
      [id |-> 2, holding_id |-> 1, ts |-> 2, action |-> BUY,
       qty |-> DecInt(2), price |-> DecInt(40000), fee |-> DecInt(200)],
      [id |-> 3, holding_id |-> 1, ts |-> 3, action |-> SELL,
       qty |-> Dec(15, -1), price |-> DecInt(50000), fee |-> DecInt(150)]>>

RefStores ==
    /\ holdings = RefHoldings
    /\ transactions = RefLedger
    /\ Len(prices) = 1 /\ prices[1].holding_id = 1 /\ prices[1].price = DecInt(60000)
    /\ Len(fx_rates) = 1 /\ fx_rates[1].base_ccy = "USD" /\ fx_rates[1].quote_ccy = "PLN"
    /\ fx_rates[1].rate = DecInt(4)

\* C1: on the reference ledger [buy 1 @ 30000 fee 100; buy 2 @ 40000 fee 200;
\* sell 1.5 @ 50000 fee 150] with price 60000 and USD->PLN 4.0 the result is exactly
\* one Position: qty 1.5, avg_cost 40100, value_native 90000, value_pln 360000,
\* unrealized_pl 119400.
C1_ReferencePosition ==
    (pc = "done" /\ RefStores) =>
        /\ Len(positions) = 1
        /\ positions[1].holding = RefHoldings[1]
        /\ positions[1].qty = Dec(15, -1)
        /\ positions[1].avg_cost = DecInt(40100)
        /\ positions[1].value_native = DecInt(90000)
        /\ positions[1].value_pln = DecInt(360000)
        /\ positions[1].unrealized_pl = DecInt(119400)

C1_Witness ==
    /\ pc = "done"
    /\ RefStores
    /\ Len(positions) = 1
    /\ positions[1].unrealized_pl = DecInt(119400)

\* C2: a sell consumes lots oldest first. While and after a sell is replayed, the
\* queue is the queue before the sell with its first k lots removed and at most the
\* next one reduced (same unit cost, smaller positive quantity), every later lot
\* being identical and in the same order; a sell of exactly the first lot's quantity
\* leaves exactly the tail.
FifoShape(before, after) ==
    \E k \in 0..Len(before) :
        \/ after = From(before, k + 1)
        \/ /\ k < Len(before)
           /\ Len(after) = Len(before) - k
           /\ after[1].cost = before[k + 1].cost
           /\ DecGt(after[1].qty, DecZero)
           /\ DecGt(before[k + 1].qty, after[1].qty)
           /\ Tail(after) = From(before, k + 2)

C2_FifoOrder ==
    (pc \in {"sell", "txn"} /\ txn # None /\ txn.action = SELL) =>
        /\ FifoShape(queue_before, fifo_queue)
        /\ (pc = "txn" /\ queue_before # <<>> /\ txn.qty = queue_before[1].qty)
               => fifo_queue = Tail(queue_before)

C2_Witness ==
    /\ pc = "txn"
    /\ txn # None
    /\ txn.action = SELL
    /\ Len(queue_before) = 2
    /\ txn.qty = queue_before[1].qty
    /\ fifo_queue = Tail(queue_before)

\* C3: conservation. When the ledger of the holding holds only buys, each of a
\* quantity > 0, the Position's quantity is the sum of the bought quantities.
OnlyBuys(entries) ==
    /\ entries # <<>>
    /\ \A i \in 1..Len(entries) : entries[i].action = BUY /\ Tenths(entries[i].qty) > 0

C3_Conservation ==
    (pc = "done" /\ holdings # <<>> /\ OnlyBuys(Ledger(1))) =>
        /\ Len(positions) = 1
        /\ Tenths(positions[1].qty) = BoughtTenths(Ledger(1))

C3_Witness ==
    /\ pc = "done"
    /\ holdings # <<>>
    /\ OnlyBuys(Ledger(1))
    /\ Len(Ledger(1)) = 3
    /\ Len(positions) = 1
    /\ Tenths(positions[1].qty) = 45

\* C4: fee amortization. A replayed buy of quantity q > 0 at price p with fee f
\* appends exactly one lot, of quantity q and unit cost p + f / q (the decimal sum
\* and quotient), to the tail of the queue.
C4_BuyLot ==
    (pc = "txn" /\ txn # None /\ txn.action = BUY /\ DecGt(txn.qty, DecZero)) =>
        /\ Len(fifo_queue) = Len(queue_before) + 1
        /\ SubSeq(fifo_queue, 1, Len(queue_before)) = queue_before
        /\ fifo_queue[Len(fifo_queue)].qty = txn.qty
        /\ fifo_queue[Len(fifo_queue)].cost = DecAdd(txn.price, DecDiv(txn.fee, txn.qty))

C4_Witness ==
    /\ pc = "txn"
    /\ txn # None
    /\ txn.action = BUY
    /\ txn.qty = DecInt(2)
    /\ txn.fee = DecInt(200)
    /\ Len(queue_before) = 1
    /\ fifo_queue[2] = [qty |-> DecInt(2), cost |-> DecInt(40100)]

\* C5: proportional sell fee. Each iteration of a sell's loop, consuming c from the
\* oldest lot of unit cost u, adds c*p - c*u - f*(c/q) to the realized P/L; when
\* the increment is the whole sell (c = q) the fee subtracted is f.
Consumed == IF DecLe(Head(fifo_queue).qty, remaining_to_sell)
            THEN Head(fifo_queue).qty ELSE remaining_to_sell

C5_Increment ==
    LET c == Consumed
        u == Head(fifo_queue).cost
        gross == DecSub(DecMul(c, txn.price), DecMul(c, u))
    IN /\ total_realized_pl' =
              DecAdd(total_realized_pl,
                     DecSub(gross, DecMul(txn.fee, DecDiv(c, txn.qty))))
       /\ c = txn.qty => total_realized_pl' = DecAdd(total_realized_pl,
                                                     DecSub(gross, txn.fee))

C5_SellFee ==
    [][(pc = "sell" /\ SellLoopRuns(fifo_queue, remaining_to_sell)) => C5_Increment]_vars

C5_Witness ==
    /\ pc = "sell"
    /\ Len(queue_before) = 1
    /\ queue_before[1].qty = txn.qty
    /\ fifo_queue = <<>>
    /\ txn.fee = DecInt(150)
    /\ total_realized_pl =
           DecSub(DecSub(DecMul(txn.qty, txn.price),
                         DecMul(txn.qty, queue_before[1].cost)), DecInt(150))

\* C6: oversell is truncated. A sell of more than is held ends with an empty queue
\* (no negative lot, nothing owed), and a buy replayed while a shortfall is still
\* left in remaining_to_sell appends a lot of its full quantity.
C6_Oversell ==
    /\ (pc = "txn" /\ txn # None /\ txn.action = SELL
        /\ Tenths(txn.qty) > HeldTenths(SubSeq(Ledger(holding.id), 1,
                                     Len(Ledger(holding.id)) - Len(txns_data) - 1)))
           => fifo_queue = <<>>
    /\ (pc = "txn" /\ txn # None /\ txn.action = BUY /\ DecGt(txn.qty, DecZero)
        /\ remaining_to_sell # None /\ DecGt(remaining_to_sell, DecZero))
           => /\ fifo_queue = Append(queue_before, BuyLot(txn.qty, txn.price, txn.fee))
              /\ Tenths(TotalQty(fifo_queue))
                     = Tenths(TotalQty(queue_before)) + Tenths(txn.qty)

C6_Witness ==
    /\ pc = "txn"
    /\ txn # None
    /\ txn.action = BUY
    /\ remaining_to_sell = Dec(5, -1)
    /\ queue_before = <<>>
    /\ Len(fifo_queue) = 1
    /\ fifo_queue[1].qty = txn.qty

\* C7: full divest. When everything bought for the holding has been sold, or its
\* ledger is empty, the result holds no Position and the summary counts nothing.
C7_FullDivest ==
    (pc = "done" /\ holdings # <<>> /\ HeldTenths(Ledger(1)) = 0) =>
        /\ positions = <<>>
        /\ summary.holdings_value = DecZero
        /\ summary.unrealized_pl = DecZero
        /\ summary.net_worth = DecZero

C7_Witness ==
    /\ pc = "done"
    /\ holdings # <<>>
    /\ Len(Ledger(1)) = 3
    /\ HeldTenths(SubSeq(Ledger(1), 1, 2)) = 20
    /\ Ledger(1)[3].action = SELL
    /\ Ledger(1)[3].qty = DecInt(2)
    /\ HeldTenths(Ledger(1)) = 0
    /\ positions = <<>>

\* C8 (the claim as stated): a holding in a non-reporting currency with lots left,
\* no price and no FX observation yields current_price = avg_cost, value_pln =
\* avg_cost * qty and unrealized_pl = 0.
C8_NoPriceNoFx ==
    (pc = "done" /\ prices = <<>> /\ fx_rates = <<>> /\ positions # <<>>) =>
        /\ positions[1].current_price = positions[1].avg_cost
        /\ positions[1].value_pln = DecMul(positions[1].avg_cost, positions[1].qty)
        /\ positions[1].unrealized_pl = DecZero

\* C9: FX resolution order. The rate returned is 1 for from = to; else the rate of
\* a direct row (base = from, quote = to) of greatest ts if there is a direct row,
\* whatever the inverse rows; else 1 / the rate of an inverse row of greatest ts;
\* else 1.
Direct(c) == {i \in 1..Len(fx_rates) : fx_rates[i].base_ccy = c.from_ccy
                                       /\ fx_rates[i].quote_ccy = c.to_ccy}

Inverse(c) == {i \in 1..Len(fx_rates) : fx_rates[i].base_ccy = c.to_ccy
                                        /\ fx_rates[i].quote_ccy = c.from_ccy}

Newest(idx) == {i \in idx : \A j \in idx : fx_rates[j].ts <= fx_rates[i].ts}

C9_FxOrder ==
    fx_call # None =>
        IF fx_call.from_ccy = fx_call.to_ccy THEN fx_call.rate = DecOne
        ELSE IF Direct(fx_call) # {}
             THEN \E i \in Newest(Direct(fx_call)) : fx_call.rate = fx_rates[i].rate
        ELSE IF Inverse(fx_call) # {}
             THEN \E i \in Newest(Inverse(fx_call)) :
                      fx_call.rate = DecDiv(DecOne, fx_rates[i].rate)
        ELSE fx_call.rate = DecOne

\* A direct row older than an inverse row, and the direct rate returned.
C9_Witness ==
    /\ fx_call # None
    /\ \E i \in Direct(fx_call), j \in Inverse(fx_call) :
           /\ fx_rates[i].ts < fx_rates[j].ts
           /\ fx_call.rate = fx_rates[i].rate
           /\ fx_call.rate # DecDiv(DecOne, fx_rates[j].rate)

\* C10: FX fallback symmetry. OnlyInverse(r): the store holds rows, all of them for
\* the pair to -> from of the call, and the newest of them all carry the rate r.
OnlyInverse(r) ==
    /\ fx_call # None
    /\ fx_call.from_ccy # fx_call.to_ccy
    /\ fx_rates # <<>>
    /\ Inverse(fx_call) = 1..Len(fx_rates)
    /\ \A i \in Newest(Inverse(fx_call)) : fx_rates[i].rate = r

\* C10 (the claim as stated): resolving B -> A yields 1/r and
\* resolve(A, B) * resolve(B, A) = 1.
C10_ProductIsOne ==
    \A r \in {DecInt(3), DecInt(4)} :
        OnlyInverse(r) =>
            /\ fx_call.rate = DecDiv(DecOne, r)
            /\ \A d \in FxRateOutcomes(fx_call.to_ccy, fx_call.from_ccy) :
                   DecMul(d, fx_call.rate) = DecOne

\* C10 (amended): resolving B -> A yields the decimal quotient 1/r, rounded to the
\* context's precision; resolve(A, B) is r, and the product of the two is 1 when
\* the quotient is exact (r = 4) and otherwise within 10^(1 - precision) of 1.
DecAbs(x) == [c |-> Abs(x.c), e |-> x.e]

C10_InverseRounded ==
    \A r \in {DecInt(3), DecInt(4)} :
        OnlyInverse(r) =>
            /\ fx_call.rate = DecDiv(DecOne, r)
            /\ FxRateOutcomes(fx_call.to_ccy, fx_call.from_ccy) = {r}
            /\ DecLe(DecAbs(DecSub(DecMul(r, fx_call.rate), DecOne)), Dec(1, 1 - DecPrec))
            /\ r = DecInt(4) => DecMul(r, fx_call.rate) = DecOne

C10_Witness ==
    /\ OnlyInverse(DecInt(3))
    /\ Len(fx_rates) = 2
    /\ fx_call.rate = DecDiv(DecOne, DecInt(3))
    /\ DecMul(DecInt(3), fx_call.rate) # DecOne

\* ------------------------------------------------------------------------
\* SpecPrices: up to MaxHoldings holdings, up to MaxPrices price observations
\* with timestamps that may coincide, and _get_latest_price called on them.
\* ------------------------------------------------------------------------
MaxHoldings == 2

MaxPrices == 2

\* add_crypto_holding(symbol, name, currency) and add_stock_holding(symbol, currency)
HoldingInputs ==
    {[asset_type |-> "crypto", symbol |-> "BTC", currency |-> "USD"],
     [asset_type |-> "crypto", symbol |-> "ETH", currency |-> "EUR"],
     [asset_type |-> "stock", symbol |-> "AAPL", currency |-> "USD"]}

AddHolding ==
    \E h \in HoldingInputs :
        /\ Len(holdings) < MaxHoldings
        /\ InsertHolding(h.asset_type, h.symbol, h.currency)

PriceInputs == [ts : {1, 2}, price : {DecInt(60000), DecInt(70000)}]

AddPrice ==
    \E i \in 1..Len(holdings), f \in PriceInputs :
        /\ Len(prices) < MaxPrices
        /\ price_call = None
        /\ InsertPrice(holdings[i].id, f.ts, f.price, holdings[i].currency, "test")

\* _get_latest_price(conn, holding_id, currency) runs and returns.
GetLatestPrice ==
    /\ pc = "idle"
    /\ price_call = None
    /\ \E i \in 1..Len(holdings) :
       \E price \in LatestPriceOutcomes(holdings[i].id) :
           price_call' = [holding_id |-> holdings[i].id, price |-> price]
    /\ UNCHANGED <<stores, locals, fx_call, refresh, ui>>

\* The caller is done with the price.
PriceReturn ==
    /\ price_call # None
    /\ price_call' = None
    /\ UNCHANGED <<stores, locals, fx_call, refresh, ui>>

NextPrices ==
    \/ AddHolding
    \/ AddPrice
    \/ GetLatestPrice
    \/ PriceReturn

SpecPrices == Init /\ [][NextPrices]_vars

\* The observations of the holding of the call, and the newest of a set of them.
PricesOf(holding_id) == {i \in 1..Len(prices) : prices[i].holding_id = holding_id}

NewestPrices(idx) == {i \in idx : \A j \in idx : prices[j].ts <= prices[i].ts}

\* C11 (the claim as stated): _get_latest_price returns None when the holding has
\* no observation, else the price of the observation of greatest ts, and among
\* several of that ts the one inserted last.
C11_LatestPrice ==
    price_call # None =>
        LET idx == PricesOf(price_call.holding_id)
        IN IF idx = {} THEN price_call.price = None
           ELSE \E i \in NewestPrices(idx) :
                    /\ \A j \in NewestPrices(idx) : j <= i
                    /\ price_call.price = prices[i].price

\* The sums of the lots' quantities and of quantity * unit cost, added from 0
\* in queue order.
RECURSIVE LotQtySum(_)
LotQtySum(queue) ==
    IF queue = <<>> THEN DecZero
    ELSE DecAdd(LotQtySum(SubSeq(queue, 1, Len(queue) - 1)), queue[Len(queue)].qty)

RECURSIVE LotCostSum(_)
LotCostSum(queue) ==
    IF queue = <<>> THEN DecZero
    ELSE DecAdd(LotCostSum(SubSeq(queue, 1, Len(queue) - 1)),
                DecMul(queue[Len(queue)].qty, queue[Len(queue)].cost))

\* The last Position appended is the one of the holding just replayed.
JustAppended ==
    /\ pc = "holding"
    /\ positions # <<>>
    /\ holding # None
    /\ positions[Len(positions)].holding = holding
    /\ SelectTxns(holding.id) # <<>>

\* C12: Position formulae. For the Position just built from the remaining lots:
\* qty is the sum of the lot quantities, avg_cost is (sum of quantity * unit cost)
\* / qty, current_price is a latest price of the holding or avg_cost when it has
\* none, value_native = qty * current_price, and for one resolved rate r of the
\* holding's currency to PLN value_pln = value_native * r and unrealized_pl =
\* value_pln - total_cost * r.
C12_PositionFormulae ==
    JustAppended =>
        LET p == positions[Len(positions)]
            total_cost == LotCostSum(fifo_queue)
        IN /\ p.qty = LotQtySum(fifo_queue)
           /\ p.avg_cost = DecDiv(total_cost, p.qty)
           /\ IF PricesOf(holding.id) = {} THEN p.current_price = p.avg_cost
              ELSE \E i \in NewestPrices(PricesOf(holding.id)) :
                       p.current_price = prices[i].price
           /\ p.value_native = DecMul(p.qty, p.current_price)
           /\ \E r \in FxRateOutcomes(holding.currency, ReportingCcy) :
                  /\ p.value_pln = DecMul(p.value_native, r)
                  /\ p.unrealized_pl = DecSub(p.value_pln, DecMul(total_cost, r))

C12_Witness ==
    /\ JustAppended
    /\ Len(fifo_queue) = 2
    /\ fifo_queue[1].cost # fifo_queue[2].cost
    /\ prices # <<>>
    /\ fx_rates # <<>>
    /\ positions[1].value_pln = DecMul(positions[1].value_native, DecInt(4))
    /\ positions[1].unrealized_pl # DecSub(positions[1].value_pln, LotCostSum(fifo_queue))

\* ------------------------------------------------------------------------
\* SpecCash: the BTC holding with a short ledger, the reference price and rate,
\* and up to MaxAccounts cash accounts, active or not, in PLN or not.
\* ------------------------------------------------------------------------
MaxAccounts == 2

AccountInputs ==
    {[currency |-> "PLN", balance |-> DecInt(1000), active |-> TRUE],
     [currency |-> "USD", balance |-> Dec(2505, -1), active |-> TRUE],
     [currency |-> "PLN", balance |-> DecInt(500), active |-> FALSE]}

AddAccount ==
    \E a \in AccountInputs :
        /\ Len(accounts) < MaxAccounts
        /\ InsertAccount(a.currency, a.balance, a.active)

CashTxnInputs ==
    {[action |-> BUY, qty |-> DecInt(1), price |-> DecInt(30000), fee |-> DecInt(100)],
     [action |-> SELL, qty |-> Dec(15, -1), price |-> DecInt(50000), fee |-> DecInt(150)],
     [action |-> "dividend", qty |-> None, price |-> DecInt(100), fee |-> None]}

AddCashTxn ==
    \E t \in CashTxnInputs :
        InsertTransaction(1, Len(transactions) + 1, t.action, t.qty, t.price, t.fee)

NextCash ==
    \/ AddBtcHolding
    \/ AddCashTxn
    \/ AddRefPrice
    \/ AddRefRate
    \/ AddAccount
    \/ Engine

SpecCash == Init /\ [][NextCash]_vars

\* 0 + f(ps[1]) + f(ps[2]) + ... over the positions, for the two summed fields.
RECURSIVE SumValuePln(_)
SumValuePln(ps) ==
    IF ps = <<>> THEN DecZero
    ELSE DecAdd(SumValuePln(SubSeq(ps, 1, Len(ps) - 1)), ps[Len(ps)].value_pln)

RECURSIVE SumUnrealized(_)
SumUnrealized(ps) ==
    IF ps = <<>> THEN DecZero
    ELSE DecAdd(SumUnrealized(SubSeq(ps, 1, Len(ps) - 1)), ps[Len(ps)].unrealized_pl)

RECURSIVE ActiveTenths(_)
ActiveTenths(rows) ==
    IF rows = <<>> THEN 0
    ELSE ActiveTenths(Tail(rows))
         + (IF Head(rows).active = TRUE /\ Head(rows).balance # None
            THEN Tenths(Head(rows).balance) ELSE 0)

\* C14: cash in the summary is the sum of the balances of the active accounts
\* only, each added as it is stored whatever its currency and whatever rates the
\* FX store holds.
C14_ActiveCash ==
    pc = "done" =>
        /\ summary.cash.e >= -1
        /\ Tenths(summary.cash) = ActiveTenths(accounts)

\* An inactive account with a balance, an active USD account and a USD -> PLN rate
\* of 4 in the store: the cash is the USD balance, unconverted.
C14_Witness ==
    /\ pc = "done"
    /\ fx_rates # <<>>
    /\ \E i, j \in 1..Len(accounts) :
           /\ accounts[i].active = FALSE
           /\ accounts[i].balance = DecInt(500)
           /\ accounts[j].active = TRUE
           /\ accounts[j].currency = "USD"
    /\ summary.cash = Dec(2505, -1)

\* ------------------------------------------------------------------------
\* SpecMulti: up to MaxHoldings holdings inserted in any order, a ledger
\* of up to MaxMultiTxns entries spread over them with NULL fields and oversells,
\* the reference price and rate present or not.
\* ------------------------------------------------------------------------
MultiTxnInputs ==
    {[action |-> BUY, qty |-> DecInt(1), price |-> DecInt(30000), fee |-> DecInt(100)],
     [action |-> SELL, qty |-> Dec(15, -1), price |-> None, fee |-> DecInt(150)],
     [action |-> "dividend", qty |-> None, price |-> DecInt(100), fee |-> None]}

\* Bound on the entries of a ledger spread over several holdings.
MaxMultiTxns == 2

AddMultiTxn ==
    \E i \in 1..Len(holdings), t \in MultiTxnInputs :
        /\ Len(transactions) < MaxMultiTxns
        /\ InsertTransaction(holdings[i].id, Len(transactions) + 1,
                             t.action, t.qty, t.price, t.fee)

NextMulti ==
    \/ AddHolding
    \/ AddMultiTxn
    \/ AddRefPrice
    \/ AddRefRate
    \/ Engine

SpecMulti == Init /\ [][NextMulti]_vars

\* C17: the core is read-only and keeps no lot state. Every step of a running
\* get_portfolio_summary / calculate_positions leaves the five stores unchanged;
\* the replay of each holding starts from an empty queue and zero realized P/L; and
\* every Position returned holds the quantity the holding's own ledger leaves when
\* replayed from nothing.
C17_Step ==
    /\ (pc # "idle" \/ pc' # "idle") => stores' = stores
    /\ (pc = "holding" /\ pc' = "txn") =>
           /\ fifo_queue' = <<>>
           /\ total_realized_pl' = DecZero
    /\ pc' = "done" =>
           \A k \in 1..Len(positions') :
               Tenths(positions'[k].qty) = HeldTenths(Ledger(positions'[k].holding.id))

C17_ReadOnly == [][C17_Step]_vars

\* The second holding of the call starts from an empty queue although the first
\* one left lots and a Position.
C17_Witness ==
    /\ pc = "txn"
    /\ txn = None
    /\ Len(holdings) = 2
    /\ Len(positions) = 1
    /\ positions[1].holding # holding
    /\ fifo_queue = <<>>
    /\ stores # <<<<>>, <<>>, <<>>, <<>>, <<>>>>

\* C18: calculate_positions returns at most one Position per holding, each of a
\* stored holding, in ascending order of symbol, each with qty > 0.
C18_OrderedPositions ==
    pc # "idle" =>
        /\ \A i, j \in 1..Len(positions) :
               i < j => /\ positions[i].holding # positions[j].holding
                        /\ SymbolRank(positions[i].holding.symbol)
                               <= SymbolRank(positions[j].holding.symbol)
        /\ \A i \in 1..Len(positions) :
               /\ \E k \in 1..Len(holdings) : holdings[k] = positions[i].holding
               /\ positions[i].qty.c > 0

\* Two Positions, of holdings inserted in descending order of symbol.
C18_Witness ==
    /\ pc = "done"
    /\ Len(positions) = 2
    /\ positions[1].holding.id > positions[2].holding.id
    /\ SymbolRank(positions[1].holding.symbol) < SymbolRank(positions[2].holding.symbol)

\* The holding's own ledger rows in replay order, NULLs zeroed, and the queue
\* their replay from an empty queue leaves.
OwnLedger(holding_id) ==
    LET rows == OrderByTsId(transactions,
                    {i \in 1..Len(transactions) : transactions[i].holding_id = holding_id})
    IN [i \in 1..Len(rows) |-> Zeroed(rows[i])]

RECURSIVE Drain(_, _, _, _, _)
Drain(queue, remaining, qty, price, fee) ==
    IF SellLoopRuns(queue, remaining)
    THEN LET r == ConsumeOldest(queue, remaining, DecZero, qty, price, fee)
         IN Drain(r.fifo_queue, r.remaining_to_sell, qty, price, fee)
    ELSE queue

RECURSIVE Replay(_)
Replay(entries) ==
    IF entries = <<>> THEN <<>>
    ELSE LET q == Replay(SubSeq(entries, 1, Len(entries) - 1))
             t == entries[Len(entries)]
         IN IF t.action = BUY THEN BuyQueue(q, t.qty, t.price, t.fee)
            ELSE IF t.action = SELL THEN Drain(q, t.qty, t.qty, t.price, t.fee)
            ELSE q

\* C20: partial data is non-fatal and local. With NULL quantity, price or fee
\* fields, oversells and missing prices or rates in the stores, no arithmetic of
\* the replay meets a None or a zero divisor (the entry's fields are zeroed, a sell
\* divides by its quantity only when that is > 0, every lot has a quantity > 0, the
\* average divides by a total # 0), and in the result each holding has no Position
\* when its own ledger
\* leaves nothing, else exactly the Position built from its own ledger rows, its
\* own price rows and the rate of its currency, whatever the other holdings'
\* rows are.
C20_PartialData ==
    /\ (pc \in {"txn", "sell"} /\ txn # None) =>
           txn.qty # None /\ txn.price # None /\ txn.fee # None
    /\ (pc = "sell" /\ SellLoopRuns(fifo_queue, remaining_to_sell)) => txn.qty # DecZero
    /\ \A k \in 1..Len(fifo_queue) : fifo_queue[k].qty.c > 0
    /\ (pc = "txn" /\ txns_data = <<>> /\ fifo_queue # <<>>) =>
           TotalQty(fifo_queue) # DecZero
    /\ pc = "done" =>
           \A i \in 1..Len(holdings) :
               LET h   == holdings[i]
                   q   == Replay(OwnLedger(h.id))
                   own == {k \in 1..Len(positions) : positions[k].holding = h}
               IN IF q = <<>> THEN own = {}
                  ELSE \E k \in own :
                           /\ own = {k}
                           /\ \E price \in LatestPriceOutcomes(h.id) :
                              \E r \in FxRateOutcomes(h.currency, ReportingCcy) :
                                  positions[k] = MakePosition(h, q, price, r)

\* One holding whose ledger is an oversell at a NULL price, no price and no rate
\* for it, and the other holding's Position in the result.
C20_Witness ==
    /\ pc = "done"
    /\ Len(holdings) = 2
    /\ Len(positions) = 1
    /\ \E i \in 1..2 :
           /\ holdings[i] # positions[1].holding
           /\ Len(OwnLedger(holdings[i].id)) = 1
           /\ OwnLedger(holdings[i].id)[1].action = SELL
           /\ \E k \in 1..Len(transactions) :
                  /\ transactions[k].holding_id = holdings[i].id
                  /\ transactions[k].price = None
           /\ PricesOf(holdings[i].id) = {}
    /\ positions[1].qty = DecInt(1)

\* ------------------------------------------------------------------------
\* SpecTies: the BTC holding with a short ledger and up to MaxPrices price
\* observations whose timestamps may coincide, valued by get_portfolio_summary.
\* ------------------------------------------------------------------------
NextTies ==
    \/ AddBtcHolding
    \/ AddCashTxn
    \/ AddPrice
    \/ AddRefRate
    \/ Engine

SpecTies == Init /\ [][NextTies]_vars

\* The Positions a computation can return for the holding being replayed, at the
\* point where the replay is over and the price and the rate are read.
PositionOutcomes ==
    {MakePosition(holding, fifo_queue, price, r) :
        price \in LatestPriceOutcomes(holding.id),
        r \in FxRateOutcomes(holding.currency, ReportingCcy)}

\* C15 (the claim as stated): determinism. Over unchanged stores any two
\* computations of a holding's Position give the same Position, also when several
\* price observations share the latest timestamp.
C15_Deterministic ==
    (pc = "txn" /\ txns_data = <<>> /\ TotalQty(fifo_queue) # DecZero) =>
        \A p1, p2 \in PositionOutcomes : p1 = p2

\* ------------------------------------------------------------------------
\* refresh_prices (ui.py), statement by statement on the shared connection
\* ------------------------------------------------------------------------
\* float(x) bound to a DECIMAL(18, 8) column: the value rounded to 8 decimals.
ToDecimal18_8(x) ==
    IF x.e >= -8 THEN x
    ELSE LET unit == Pow10(-8 - x.e)
             q    == Abs(x.c) \div unit
             rem  == Abs(x.c) % unit
         IN Norm(Sgn(x.c) * (IF 2 * rem >= unit THEN q + 1 ELSE q), -8)

\* datetime.now(): a reading of the local wall clock. It is naive local time, and
\* the stores may hold rows stamped by other writers, so the timestamps already
\* stored do not bound it.
ClockReadings == {1, 2}

\* SELECT id, asset_type, symbol, currency FROM holdings ORDER BY asset_type, symbol
RECURSIVE OrderByTypeSymbol(_)
OrderByTypeSymbol(idx) ==
    IF idx = {} THEN <<>>
    ELSE LET first == CHOOSE i \in idx : \A j \in idx :
                          \/ holdings[i].asset_type = "crypto" /\ holdings[j].asset_type # "crypto"
                          \/ /\ holdings[i].asset_type = holdings[j].asset_type
                             /\ SymbolRank(holdings[i].symbol) <= SymbolRank(holdings[j].symbol)
         IN <<holdings[first]>> \o OrderByTypeSymbol(idx \ {first})

\* fx_nbp.get_current_rates("PLN"): PLN itself and the currencies NBP answered with.
FxFeeds ==
    {<<[ccy |-> "PLN", rate |-> DecOne]>>,
     <<[ccy |-> "PLN", rate |-> DecOne], [ccy |-> "USD", rate |-> DecInt(5)]>>}

\* crypto_coingecko.get_current_prices(symbols, vs_currency="usd"): a USD quote.
CryptoQuote == DecInt(65000)

\* stocks_yfinance.get_current_price(symbol): a quote in the listing's currency.
StockQuote == DecInt(200)

\* The rows refresh_prices has stored.
RefreshRows ==
    Cardinality({i \in 1..Len(fx_rates) : fx_rates[i].source = "NBP"})
    + Cardinality({i \in 1..Len(prices) : prices[i].source \in {"CoinGecko", "yfinance"}})

\* Bound on the rows refresh_prices stores in all.
MaxRefreshRows == 3

\* refresh_prices starts: the holdings are read (with none it returns at once and
\* nothing changes), then the FX rates are fetched and queued for insertion at the clock's reading.
RefreshStart ==
    /\ refresh = None
    /\ holdings # <<>>
    /\ RefreshRows + 1 + Len(holdings) <= MaxRefreshRows
    /\ \E feed \in FxFeeds, now \in ClockReadings :
           refresh' = [phase |-> "fx",
                       holdings |-> OrderByTypeSymbol(1..Len(holdings)),
                       todo |-> [k \in 1..(Len(feed) - 1) |->
                                    [table |-> "fx_rates", ts |-> now,
                                     base_ccy |-> feed[k + 1].ccy, quote_ccy |-> "PLN",
                                     rate |-> ToDecimal18_8(feed[k + 1].rate),
                                     source |-> "NBP"]]]
    /\ UNCHANGED <<stores, locals, fx_call, price_call, ui>>

\* The row breaks UNIQUE(ts, base_ccy, quote_ccy, source) of fx_rates.
FxConflict(st) ==
    \E i \in 1..Len(fx_rates) :
        /\ fx_rates[i].ts = st.ts /\ fx_rates[i].base_ccy = st.base_ccy
        /\ fx_rates[i].quote_ccy = st.quote_ccy /\ fx_rates[i].source = st.source

\* One conn.execute("INSERT ...") of refresh_prices. An FX row that breaks the
\* UNIQUE constraint raises, and the except of the FX block drops the rows left.
RefreshInsert ==
    /\ refresh # None
    /\ refresh.todo # <<>>
    /\ LET st == Head(refresh.todo)
       IN IF st.table = "fx_rates"
          THEN IF FxConflict(st)
               THEN /\ refresh' = [refresh EXCEPT !.todo = <<>>]
                    /\ UNCHANGED <<fx_rates, prices>>
               ELSE /\ fx_rates' = Append(fx_rates,
                            [id |-> NextId(fx_rates), ts |-> st.ts,
                             base_ccy |-> st.base_ccy, quote_ccy |-> st.quote_ccy,
                             rate |-> st.rate, source |-> st.source])
                    /\ refresh' = [refresh EXCEPT !.todo = Tail(refresh.todo)]
                    /\ UNCHANGED prices
          ELSE /\ prices' = Append(prices,
                       [id |-> NextId(prices), holding_id |-> st.holding_id, ts |-> st.ts,
                        price |-> st.price, price_ccy |-> st.price_ccy,
                        source |-> st.source])
               /\ refresh' = [refresh EXCEPT !.todo = Tail(refresh.todo)]
               /\ UNCHANGED fx_rates
    /\ UNCHANGED <<holdings, transactions, accounts, locals, fx_call, price_call, ui>>

\* The crypto holdings are quoted in one call, vs_currency="usd"; the holdings the
\* answer names get a row with price_ccy "USD".
RefreshCrypto ==
    /\ refresh # None
    /\ refresh.phase = "fx"
    /\ refresh.todo = <<>>
    /\ LET crypto_symbols == SelectSeq(refresh.holdings, LAMBDA h : h.asset_type = "crypto")
       IN \E found \in {crypto_symbols, <<>>}, now \in ClockReadings :
              refresh' = [refresh EXCEPT
                  !.phase = "crypto",
                  !.todo = [k \in 1..Len(found) |->
                               [table |-> "prices", holding_id |-> found[k].id,
                                ts |-> now, price |-> ToDecimal18_8(CryptoQuote),
                                price_ccy |-> "USD", source |-> "CoinGecko"]]]
    /\ UNCHANGED <<stores, locals, fx_call, price_call, ui>>

\* The stock and ETF holdings are quoted one by one; each quote found gets a row
\* with price_ccy = the holding's currency.
RefreshStocks ==
    /\ refresh # None
    /\ refresh.phase = "crypto"
    /\ refresh.todo = <<>>
    /\ LET stock_symbols == SelectSeq(refresh.holdings,
                                      LAMBDA h : h.asset_type \in {"stock", "etf"})
       IN \E found \in {stock_symbols, <<>>}, now \in ClockReadings :
              refresh' = [refresh EXCEPT
                  !.phase = "stock",
                  !.todo = [k \in 1..Len(found) |->
                               [table |-> "prices", holding_id |-> found[k].id,
                                ts |-> now, price |-> ToDecimal18_8(StockQuote),
                                price_ccy |-> found[k].currency, source |-> "yfinance"]]]
    /\ UNCHANGED <<stores, locals, fx_call, price_call, ui>>

\* conn.commit() and return.
RefreshCommit ==
    /\ refresh # None
    /\ refresh.phase = "stock"
    /\ refresh.todo = <<>>
    /\ refresh' = None
    /\ UNCHANGED <<stores, locals, fx_call, price_call, ui>>

RefreshPrices ==
    \/ RefreshStart
    \/ RefreshInsert
    \/ RefreshCrypto
    \/ RefreshStocks
    \/ RefreshCommit

\* ------------------------------------------------------------------------
\* SpecRefresh: holdings and a ledger of up to MaxMultiTxns entries are set up,
\* then refresh_prices and get_portfolio_summary run on the shared connection,
\* their statements interleaved.
\* ------------------------------------------------------------------------
SetUpHolding ==
    /\ refresh = None
    /\ RefreshRows = 0
    /\ AddHolding

SetUpTxn ==
    /\ refresh = None
    /\ RefreshRows = 0
    /\ AddMultiTxn

NextRefresh ==
    \/ SetUpHolding
    \/ SetUpTxn
    \/ RefreshPrices
    \/ Engine

SpecRefresh == Init /\ [][NextRefresh]_vars

\* What the two resolvers return on a snapshot of the stores: the first kp rows
\* of prices, the first kf rows of fx_rates (rows are only ever appended).
PriceOutcomesAt(kp, holding_id) ==
    LET idx == {i \in 1..kp : prices[i].holding_id = holding_id}
    IN IF idx = {} THEN {None}
       ELSE {prices[i].price : i \in {j \in idx : \A k \in idx : prices[k].ts <= prices[j].ts}}

LatestRatesAt(kf, base, quote) ==
    LET idx == {i \in 1..kf : fx_rates[i].base_ccy = base /\ fx_rates[i].quote_ccy = quote}
    IN {fx_rates[i].rate : i \in {j \in idx : \A k \in idx : fx_rates[k].ts <= fx_rates[j].ts}}

RateOutcomesAt(kf, from_ccy, to_ccy) ==
    IF from_ccy = to_ccy THEN {DecOne}
    ELSE IF LatestRatesAt(kf, from_ccy, to_ccy) # {} THEN LatestRatesAt(kf, from_ccy, to_ccy)
    ELSE IF LatestRatesAt(kf, to_ccy, from_ccy) # {}
         THEN {DecDiv(DecOne, r) : r \in LatestRatesAt(kf, to_ccy, from_ccy)}
    ELSE {DecOne}

\* C16 (the claim as stated): consistent snapshot. With refresh_prices inserting
\* while get_portfolio_summary runs, there is one snapshot of the price store and
\* one of the FX store from which every Position of the result is valued.
C16_Snapshot ==
    pc = "done" =>
        \E kp \in 0..Len(prices), kf \in 0..Len(fx_rates) :
            \A k \in 1..Len(positions) :
                LET p == positions[k]
                IN /\ \E price \in PriceOutcomesAt(kp, p.holding.id) :
                          p.current_price = IF price = None THEN p.avg_cost ELSE price
                   /\ \E r \in RateOutcomesAt(kf, p.holding.currency, ReportingCcy) :
                          p.value_pln = DecMul(p.value_native, r)

\* The currency of the holding a price row belongs to.
CurrencyOf(holding_id) ==
    (CHOOSE h \in {holdings[i] : i \in 1..Len(holdings)} : h.id = holding_id).currency

\* C19 (the claim as stated): every price row refresh_prices stores is a price in
\* the currency of its holding, so the price a Position is valued at, which is
\* multiplied by the rate of the holding's currency to PLN, is in that currency.
C19_NativePrice ==
    /\ \A i \in 1..Len(prices) :
           prices[i].source \in {"CoinGecko", "yfinance"} =>
               prices[i].price_ccy = CurrencyOf(prices[i].holding_id)
    /\ pc = "done" =>
           \A k \in 1..Len(positions) :
               \A i \in NewestPrices(PricesOf(positions[k].holding.id)) :
                   positions[k].current_price = prices[i].price =>
                       prices[i].price_ccy = positions[k].holding.currency

\* ------------------------------------------------------------------------
\* SpecEdge: the BTC holding with a ledger of up to MaxEdgeTxns entries that
\* include zero, negative and NULL quantities and the actions the engine
\* ignores, the reference price and rate present or not.
\* ------------------------------------------------------------------------
MaxEdgeTxns == 3

EdgeTxnInputs ==
    {[action |-> BUY, qty |-> DecInt(1), price |-> DecInt(30000), fee |-> DecInt(100)],
     [action |-> BUY, qty |-> DecInt(2), price |-> DecInt(40000), fee |-> DecInt(200)],
     [action |-> BUY, qty |-> DecZero, price |-> DecInt(30000), fee |-> DecInt(100)],
     [action |-> BUY, qty |-> DecInt(-1), price |-> DecInt(30000), fee |-> DecInt(100)],
     [action |-> BUY, qty |-> None, price |-> DecInt(30000), fee |-> DecInt(100)],
     [action |-> SELL, qty |-> Dec(15, -1), price |-> DecInt(50000), fee |-> DecInt(150)],
     [action |-> SELL, qty |-> DecZero, price |-> DecInt(50000), fee |-> DecInt(150)],
     [action |-> SELL, qty |-> None, price |-> DecInt(50000), fee |-> DecInt(150)],
     [action |-> SELL, qty |-> DecInt(-1), price |-> DecInt(50000), fee |-> DecInt(150)],
     [action |-> "transfer", qty |-> DecInt(1), price |-> DecInt(30000), fee |-> DecInt(100)],
     [action |-> "dividend", qty |-> None, price |-> DecInt(100), fee |-> None]}

AddEdgeTxn ==
    \E t \in EdgeTxnInputs :
        /\ Len(transactions) < MaxEdgeTxns
        /\ InsertTransaction(1, Len(transactions) + 1, t.action, t.qty, t.price, t.fee)

NextEdge ==
    \/ AddBtcHolding
    \/ AddEdgeTxn
    \/ AddRefPrice
    \/ AddRefRate
    \/ Engine

SpecEdge == Init /\ [][NextEdge]_vars

\* C21: lot invariant. After every step of the engine every lot of the queue has
\* a quantity > 0; a sell iteration that takes the whole of the oldest lot removes
\* it in that step; and a buy whose quantity is zero, negative or NULL leaves the
\* queue as it was.
C21_Step ==
    /\ \A k \in 1..Len(fifo_queue') : fifo_queue'[k].qty.c > 0
    /\ (/\ pc = "sell"
        /\ SellLoopRuns(fifo_queue, remaining_to_sell)
        /\ DecLe(Head(fifo_queue).qty, remaining_to_sell))
           => fifo_queue' = Tail(fifo_queue)
    /\ (/\ pc = "txn"
        /\ txns_data # <<>>
        /\ Head(txns_data).action = BUY
        /\ ~DecGt(Coalesce(Head(txns_data).qty), DecZero))
           => fifo_queue' = fifo_queue

C21_LotInvariant == [][C21_Step]_vars

\* A sell has left half a unit of the one lot, and a buy of -1 was replayed after it.
C21_Witness ==
    /\ pc = "txn"
    /\ txn # None
    /\ txn.action = BUY
    /\ txn.qty = DecInt(-1)
    /\ Len(queue_before) = 1
    /\ queue_before[1].qty = Dec(5, -1)
    /\ fifo_queue = queue_before

\* ------------------------------------------------------------------------
\* SpecOrder: the BTC holding with a ledger of up to MaxOrderTxns entries whose
\* timestamps are in any order and may coincide.
\* ------------------------------------------------------------------------
MaxOrderTxns == 3

OrderTxnInputs ==
    {[action |-> BUY, qty |-> DecInt(1), price |-> DecInt(30000), fee |-> DecInt(100)],
     [action |-> BUY, qty |-> DecInt(2), price |-> DecInt(40000), fee |-> DecInt(200)],
     [action |-> SELL, qty |-> DecInt(1), price |-> DecInt(50000), fee |-> DecInt(150)],
     [action |-> "dividend", qty |-> None, price |-> DecInt(100), fee |-> None]}

AddOrderTxn ==
    \E t \in OrderTxnInputs, ts \in {1, 2} :
        /\ Len(transactions) < MaxOrderTxns
        /\ InsertTransaction(1, ts, t.action, t.qty, t.price, t.fee)

NextOrder ==
    \/ AddBtcHolding
    \/ AddOrderTxn
    \/ Engine

SpecOrder == Init /\ [][NextOrder]_vars

\* Entry a comes before entry b in (timestamp, insertion sequence) order.
Before(a, b) == a.ts < b.ts \/ (a.ts = b.ts /\ a.id < b.id)

InReplayOrder(entries) ==
    \A i, j \in 1..Len(entries) : i < j => Before(entries[i], entries[j])

\* C22: ledger replay order. The entries the engine is about to replay are all the
\* stored rows of the holding, in ascending (timestamp, insertion sequence) order
\* whatever the order they were stored in; each entry still to come is after the
\* one being replayed; and on a ledger of one buy and one sell of the same
\* quantity the buy is consumed by the sell exactly when it comes before the sell
\* in that order, insertion deciding between equal timestamps.
C22_ReplayOrder ==
    /\ (pc = "txn" /\ txn = None) =>
           /\ Len(txns_data) = Cardinality({k \in 1..Len(transactions) :
                                               transactions[k].holding_id = holding.id})
           /\ {txns_data[i] : i \in 1..Len(txns_data)}
                  = {transactions[k] : k \in {n \in 1..Len(transactions) :
                                                 transactions[n].holding_id = holding.id}}
    /\ pc \in {"txn", "sell"} =>
           /\ InReplayOrder(txns_data)
           /\ txn # None => \A i \in 1..Len(txns_data) : Before(txn, txns_data[i])
    /\ (pc = "done" /\ Len(transactions) = 2) =>
           \A b, s \in 1..2 :
               (/\ transactions[b].action = BUY
                /\ transactions[s].action = SELL
                /\ transactions[b].qty = transactions[s].qty)
                   => (positions = <<>> <=> Before(transactions[b], transactions[s]))

\* Stored: a sell at ts 2, a buy at ts 2, a buy at ts 1. The buy at ts 1 is replayed
\* first and sold; the buy stored after the sell at the same ts is left.
C22_Witness ==
    /\ pc = "done"
    /\ Len(transactions) = 3
    /\ transactions[1].action = SELL /\ transactions[1].ts = 2
    /\ transactions[2].action = BUY /\ transactions[2].ts = 2
    /\ transactions[2].qty = DecInt(2)
    /\ transactions[3].action = BUY /\ transactions[3].ts = 1
    /\ transactions[3].qty = DecInt(1)
    /\ Len(positions) = 1
    /\ positions[1].qty = DecInt(2)
    /\ positions[1].avg_cost = DecInt(40100)

\* The buy and sell entries of a ledger, in their order.
Trades(entries) == SelectSeq(entries, LAMBDA t : t.action \in {BUY, SELL})

\* C23: ignored actions. Replaying an entry whose action is neither buy nor sell
\* leaves the lot queue and the realized P/L as they were, and the result of a
\* computation is the one the holding's buy and sell entries alone give, in their
\* order: no Position when they leave no lot, else the Position built from the
\* lots they leave.
C23_Step ==
    /\ (pc = "txn" /\ txns_data # <<>> /\ Head(txns_data).action \notin {BUY, SELL})
           => /\ fifo_queue' = fifo_queue
              /\ total_realized_pl' = total_realized_pl
    /\ (pc = "done" /\ holdings # <<>>) =>
           LET q == Replay(Trades(OwnLedger(1)))
           IN IF q = <<>> THEN positions = <<>>
              ELSE \E price \in LatestPriceOutcomes(1) :
                   \E r \in FxRateOutcomes(holdings[1].currency, ReportingCcy) :
                       positions = <<MakePosition(holdings[1], q, price, r)>>

C23_IgnoredActions == [][C23_Step]_vars

\* A transfer of 1 between two buys, and the Position of the two buys.
C23_Witness ==
    /\ pc = "done"
    /\ Len(OwnLedger(1)) = 3
    /\ OwnLedger(1)[1].action = BUY
    /\ OwnLedger(1)[2].action = "transfer"
    /\ OwnLedger(1)[2].qty = DecInt(1)
    /\ OwnLedger(1)[3].action = BUY
    /\ Len(positions) = 1
    /\ positions[1].qty = DecInt(3)

\* C24: zero and NULL quantities. Replaying a buy or a sell whose quantity is zero
\* or NULL leaves the lot queue and the realized P/L as they were: the buy appends
\* no lot (its fee goes nowhere: a ledger of such entries gives no Position), and
\* the sell's loop, which holds the division by the quantity, runs no iteration.
C24_Step ==
    /\ (/\ pc = "txn"
        /\ txns_data # <<>>
        /\ Head(txns_data).action \in {BUY, SELL}
        /\ Coalesce(Head(txns_data).qty) = DecZero)
           => /\ fifo_queue' = fifo_queue
              /\ total_realized_pl' = total_realized_pl
              /\ pc' = "sell" => ~SellLoopRuns(fifo_queue', remaining_to_sell')
    /\ (pc = "sell" /\ txn.qty = DecZero)
           => /\ pc' = "txn"
              /\ fifo_queue' = fifo_queue
              /\ total_realized_pl' = total_realized_pl
    /\ (/\ pc = "done"
        /\ holdings # <<>>
        /\ \A i \in 1..Len(OwnLedger(1)) : OwnLedger(1)[i].qty = DecZero)
           => positions = <<>>

C24_ZeroQuantity == [][C24_Step]_vars

\* A sell of 0 with a fee, replayed on a queue of one lot that it leaves alone.
C24_Witness ==
    /\ pc = "txn"
    /\ txn # None
    /\ txn.action = SELL
    /\ txn.qty = DecZero
    /\ txn.fee = DecInt(150)
    /\ Len(queue_before) = 1
    /\ fifo_queue = queue_before
    /\ total_realized_pl = DecZero

\* The entries of the holding's ledger that have been replayed so far.
Replayed ==
    SubSeq(Ledger(holding.id), 1, Len(Ledger(holding.id)) - Len(txns_data))

\* C25: quantity accounting. After each replayed entry the quantities of the lots
\* add up to the value of a counter that starts at 0, adds q on a buy with q > 0
\* and subtracts min(q, counter) on a sell with q > 0; the total is never negative.
C25_QuantityAccounting ==
    (pc = "txn" /\ txn # None) =>
        /\ TotalQty(fifo_queue).e >= -1
        /\ Tenths(TotalQty(fifo_queue)) = HeldTenths(Replayed)
        /\ Tenths(TotalQty(fifo_queue)) >= 0

\* A buy of 2, a sell of 1.5 and a buy of 1 replayed: 0.5 and 1 are left.
C25_Witness ==
    /\ pc = "txn"
    /\ txns_data = <<>>
    /\ Len(Replayed) = 3
    /\ Replayed[2].action = SELL
    /\ Replayed[2].qty = Dec(15, -1)
    /\ Len(fifo_queue) = 2
    /\ fifo_queue[1].qty = Dec(5, -1)
    /\ HeldTenths(Replayed) = 15

\* ------------------------------------------------------------------------
\* SpecSells: the BTC holding with a ledger of up to MaxSellsTxns entries whose
\* sells come in pairs of one quantity and different prices and fees, the
\* reference price and rate present or not.
\* ------------------------------------------------------------------------
MaxSellsTxns == 3

SellsTxnInputs ==
    {[action |-> BUY, qty |-> DecInt(1), price |-> DecInt(30000), fee |-> DecInt(100)],
     [action |-> BUY, qty |-> DecInt(2), price |-> DecInt(40000), fee |-> DecInt(200)],
     [action |-> SELL, qty |-> Dec(15, -1), price |-> DecInt(50000), fee |-> DecInt(150)],
     [action |-> SELL, qty |-> Dec(15, -1), price |-> DecInt(20000), fee |-> None],
     [action |-> SELL, qty |-> DecInt(3), price |-> DecInt(50000), fee |-> DecInt(200)],
     [action |-> SELL, qty |-> DecInt(3), price |-> None, fee |-> DecInt(150)],
     [action |-> "dividend", qty |-> None, price |-> DecInt(100), fee |-> None]}

AddSellsTxn ==
    \E t \in SellsTxnInputs :
        /\ Len(transactions) < MaxSellsTxns
        /\ InsertTransaction(1, Len(transactions) + 1, t.action, t.qty, t.price, t.fee)

NextSells ==
    \/ AddBtcHolding
    \/ AddSellsTxn
    \/ AddRefPrice
    \/ AddRefRate
    \/ Engine

SpecSells == Init /\ [][NextSells]_vars

\* The ledger with the price and the fee of every sell blanked.
Scrub(entries) ==
    [i \in 1..Len(entries) |->
        IF entries[i].action = SELL
        THEN [entries[i] EXCEPT !.price = DecZero, !.fee = DecZero]
        ELSE entries[i]]

\* C26: sell prices and sell fees never influence a Position. The result of a
\* computation is the one the ledger with every sell's price and fee blanked
\* gives, so that two ledgers that differ only in those fields give the same
\* positions; the summary is made of the positions and the cash alone, and the
\* realized P/L the sells accumulated is in neither.
C26_SellBlind ==
    (pc = "done" /\ holdings # <<>>) =>
        /\ LET q == Replay(Scrub(OwnLedger(1)))
           IN IF q = <<>> THEN positions = <<>>
              ELSE \E price \in LatestPriceOutcomes(1) :
                   \E r \in FxRateOutcomes(holdings[1].currency, ReportingCcy) :
                       positions = <<MakePosition(holdings[1], q, price, r)>>
        /\ summary = MakeSummary(positions)
        /\ DOMAIN summary = {"net_worth", "holdings_value", "unrealized_pl", "cash"}
        /\ \A k \in 1..Len(positions) :
               DOMAIN positions[k] = {"holding", "qty", "avg_cost", "current_price",
                                      "value_native", "value_pln", "unrealized_pl"}

\* Two buys and a sell of 1.5 at a loss with a NULL fee: realized P/L -20150, and
\* the Position of the 1.5 left.
C26_Witness ==
    /\ pc = "done"
    /\ Len(transactions) = 3
    /\ transactions[3].action = SELL
    /\ transactions[3].price = DecInt(20000)
    /\ transactions[3].fee = None
    /\ total_realized_pl = DecInt(-20150)
    /\ Len(positions) = 1
    /\ positions[1].qty = Dec(15, -1)
    /\ positions[1].avg_cost = DecInt(40100)

\* The quantity one iteration of a sell's loop takes from the oldest lot.
Increment(queue, remaining) ==
    IF DecLe(Head(queue).qty, remaining) THEN Head(queue).qty ELSE remaining

\* The fee amounts fee * (consumed / qty) a sell subtracts over its iterations,
\* added exactly.
RECURSIVE FeeCharged(_, _, _, _)
FeeCharged(queue, remaining, qty, fee) ==
    IF SellLoopRuns(queue, remaining)
    THEN LET r == ConsumeOldest(queue, remaining, DecZero, qty, DecZero, fee)
         IN SqlAdd(DecMul(fee, DecDiv(Increment(queue, remaining), qty)),
                   FeeCharged(r.fifo_queue, r.remaining_to_sell, qty, fee))
    ELSE DecZero

\* C27 (the claim as stated): the fee amounts a sell of quantity q > 0 with fee f
\* subtracts add up to exactly f when the quantity held is at least q, and to
\* f * (held / q), less than f, when it is an oversell (0 when nothing is held).
C27_SellFeeTotal ==
    (pc = "txn" /\ txn # None /\ txn.action = SELL /\ DecGt(txn.qty, DecZero)) =>
        LET held    == TotalQty(queue_before)
            charged == FeeCharged(queue_before, txn.qty, txn.qty, txn.fee)
        IN IF DecLe(txn.qty, held) THEN charged = txn.fee
           ELSE /\ charged = DecMul(txn.fee, DecDiv(held, txn.qty))
                /\ DecGt(txn.fee, DecZero) => DecGt(txn.fee, charged)
                /\ queue_before = <<>> => charged = DecZero

\* ------------------------------------------------------------------------
\* add_transaction (ui.py)
\* ------------------------------------------------------------------------
\* Bound on the entries add_transaction appends.
MaxUiTxns == 2

\* The symbols and the trades typed into the form.
UiSymbols == {"AAPL", "BTC", "ETH"}

UiTradeInputs ==
    {[action |-> BUY, qty |-> DecInt(1), price |-> DecInt(30000), fee |-> DecInt(100)],
     [action |-> SELL, qty |-> Dec(15, -1), price |-> DecInt(50000), fee |-> DecInt(150)],
     [action |-> "dividend", qty |-> DecInt(1), price |-> DecInt(100), fee |-> DecZero]}

\* SELECT id FROM holdings WHERE symbol = ? followed by fetchone(): the id of a
\* row with the symbol (the query names no order), none when there is no such row.
TargetOutcomes(symbol) ==
    {holdings[i].id : i \in {j \in 1..Len(holdings) : holdings[j].symbol = symbol}}

\* add_transaction(symbol, action, quantity, price, fee): for an unknown symbol
\* the message is returned and nothing is written; else one row is inserted for
\* the holding the query returned, stamped with the clock. It runs on the shared
\* connection whatever the other handlers are doing.
AddTransaction ==
    \E symbol \in UiSymbols, t \in UiTradeInputs, now \in ClockReadings :
        /\ Len(transactions) < MaxUiTxns
        /\ IF TargetOutcomes(symbol) = {}
           THEN /\ txn_call' = [symbol |-> symbol, holding_id |-> 0,
                                message |-> "Holding not found"]
                /\ UNCHANGED transactions
           ELSE \E holding_id \in TargetOutcomes(symbol) :
                    /\ transactions' = Append(transactions,
                           [id |-> NextId(transactions), holding_id |-> holding_id,
                            ts |-> now, action |-> t.action,
                            qty |-> ToDecimal18_8(t.qty), price |-> ToDecimal18_8(t.price),
                            fee |-> ToDecimal18_8(t.fee)])
                    /\ txn_call' = [symbol |-> symbol, holding_id |-> holding_id,
                                    message |-> "Added transaction"]
        /\ UNCHANGED <<holdings, prices, fx_rates, accounts, locals, fx_call,
                       price_call, refresh, overview>>

\* ------------------------------------------------------------------------
\* SpecAddTxn: up to MaxHoldings holdings, two of which share the symbol BTC
\* across asset classes, and add_transaction called with known and unknown symbols.
\* ------------------------------------------------------------------------
SharedSymbolInputs ==
    {[asset_type |-> "crypto", symbol |-> "BTC", currency |-> "USD"],
     [asset_type |-> "etf", symbol |-> "BTC", currency |-> "USD"],
     [asset_type |-> "stock", symbol |-> "AAPL", currency |-> "USD"]}

AddSharedHolding ==
    \E h \in SharedSymbolInputs :
        /\ Len(holdings) < MaxHoldings
        /\ InsertHolding(h.asset_type, h.symbol, h.currency)

NextAddTxn ==
    \/ AddSharedHolding
    \/ AddTransaction

SpecAddTxn == Init /\ [][NextAddTxn]_vars

\* C28 (the claim as stated): a call of add_transaction with a symbol no holding
\* has returns 'Holding not found' and leaves the ledger as it was; else it appends
\* exactly one entry, for a holding with that symbol, the entries before it
\* unchanged; and the stores and the symbol determine the target: the lookup has
\* one outcome, also when holdings of different asset classes share the symbol.
C28_Step ==
    /\ (txn_call' # txn_call \/ transactions' # transactions) =>
           IF TargetOutcomes(txn_call'.symbol) = {}
           THEN /\ txn_call'.message = "Holding not found"
                /\ transactions' = transactions
           ELSE /\ Len(transactions') = Len(transactions) + 1
                /\ SubSeq(transactions', 1, Len(transactions)) = transactions
                /\ transactions'[Len(transactions')].holding_id
                       \in TargetOutcomes(txn_call'.symbol)
    /\ \A symbol \in UiSymbols : Cardinality(TargetOutcomes(symbol)) <= 1

C28_AddTransaction == [][C28_Step]_vars

\* ------------------------------------------------------------------------
\* SpecStale: the BTC holding with a short ledger and observations already in
\* the stores, then refresh_prices and get_portfolio_summary run one after the
\* other, never at the same time.
\* ------------------------------------------------------------------------
StaleHolding ==
    /\ refresh = None
    /\ RefreshRows = 0
    /\ AddBtcHolding

StaleTxn ==
    /\ refresh = None
    /\ RefreshRows = 0
    /\ AddMultiTxn

StalePrice ==
    /\ refresh = None
    /\ RefreshRows = 0
    /\ AddPrice

StaleRate ==
    /\ refresh = None
    /\ RefreshRows = 0
    /\ AddRefRate

StaleRefresh ==
    /\ pc = "idle"
    /\ RefreshPrices

StaleCompute ==
    /\ pc = "idle" => refresh = None
    /\ Engine

NextStale ==
    \/ StaleHolding
    \/ StaleTxn
    \/ StalePrice
    \/ StaleRate
    \/ StaleRefresh
    \/ StaleCompute

SpecStale == Init /\ [][NextStale]_vars

\* The row of a set of rows that was inserted last.
Last(idx) == CHOOSE i \in idx : \A j \in idx : j <= i

\* The price rows refresh_prices stored for a holding, and the rates it stored
\* for a currency.
RefreshedPrices(holding_id) ==
    {i \in PricesOf(holding_id) : prices[i].source \in {"CoinGecko", "yfinance"}}

RefreshedRates(ccy) ==
    {i \in 1..Len(fx_rates) : /\ fx_rates[i].source = "NBP"
                              /\ fx_rates[i].base_ccy = ccy
                              /\ fx_rates[i].quote_ccy = ReportingCcy}

\* C29 (the claim as stated): a computation that runs after refresh_prices has
\* stored a price for a holding values the holding at the price stored last, and
\* converts it at the rate stored last for its currency, whatever observations
\* the stores held before, of an earlier, equal or later timestamp.
C29_FreshPrice ==
    (pc = "done" /\ refresh = None) =>
        \A k \in 1..Len(positions) :
            LET p  == positions[k]
                np == RefreshedPrices(p.holding.id)
                nr == RefreshedRates(p.holding.currency)
            IN /\ np # {} => p.current_price = prices[Last(np)].price
               /\ nr # {} => p.value_pln = DecMul(p.value_native, fx_rates[Last(nr)].rate)

\* ------------------------------------------------------------------------
\* get_overview_data (ui.py): get_portfolio_summary, then calculate_positions
\* ------------------------------------------------------------------------
\* summary = get_portfolio_summary(conn) has returned; the text is formatted and
\* calculate_positions(conn) is called, which reads the holdings anew.
OverviewPositions ==
    /\ pc = "done"
    /\ overview = None
    /\ overview' = [summary |-> summary, positions |-> <<>>]
    /\ \E hs \in HoldingsBySymbol : holdings_data' = hs
    /\ positions' = <<>>
    /\ pc' = "holding"
    /\ UNCHANGED <<stores, engine, summary, fx_call, price_call, refresh, txn_call>>

\* calculate_positions returns to get_overview_data, which returns the text of
\* the summary and the table of the positions.
OverviewReturn ==
    /\ pc = "holding"
    /\ holdings_data = <<>>
    /\ overview # None
    /\ overview' = [overview EXCEPT !.positions = positions]
    /\ pc' = "shown"
    /\ UNCHANGED <<stores, holdings_data, engine, positions, summary, fx_call,
                   price_call, refresh, txn_call>>

\* The page has the result; the locals of the handler are gone.
OverviewDone ==
    /\ pc = "shown"
    /\ pc' = "idle"
    /\ overview' = None
    /\ holdings_data' = <<>>
    /\ holding' = None
    /\ txns_data' = <<>>
    /\ txn' = None
    /\ fifo_queue' = <<>>
    /\ queue_before' = <<>>
    /\ total_realized_pl' = DecZero
    /\ remaining_to_sell' = None
    /\ positions' = <<>>
    /\ summary' = None
    /\ UNCHANGED <<stores, fx_call, price_call, refresh, txn_call>>

GetOverviewData ==
    \/ OverviewPositions
    \/ OverviewReturn
    \/ OverviewDone

\* ------------------------------------------------------------------------
\* SpecOverview: the BTC holding, the reference price and rate present or not,
\* get_overview_data and add_transaction running on the shared connection.
\* ------------------------------------------------------------------------
NextOverview ==
    \/ AddBtcHolding
    \/ AddRefPrice
    \/ AddRefRate
    \/ AddTransaction
    \/ Engine
    \/ GetOverviewData

SpecOverview == Init /\ [][NextOverview]_vars

\* C30 (the claim as stated): in every result of get_overview_data the holdings
\* value of the summary is the sum of the PLN values of the rows of the positions
\* table returned with it, also when add_transaction runs between the handler's two
\* computations.
C30_SelfConsistent ==
    pc = "shown" =>
        overview.summary.holdings_value = SumValuePln(overview.positions)

====
